---- MODULE Spec2Model ----
(***************************************************************************)
(* A model of the release tooling of k8s-repo-tools: the pure helpers of   *)
(* pkg/utils.go (ref parsing, release-notes range selection, latest        *)
(* branch / tag selection) and the process function of k8s-repo-ff.        *)
(*                                                                         *)
(* A Go string is modelled as a sequence of one-character strings, so that *)
(* TrimPrefix, Count, Split, Sprintf("%d") and the version parser are      *)
(* computed character by character, as the code computes them.            *)
(***************************************************************************)
EXTENDS Integers, Sequences, FiniteSets, TLC

(***************************************************************************)
(* Characters and Go's strings / strconv / fmt helpers.                    *)
(***************************************************************************)

\* The characters that occur in the inputs, in ASCII (byte) order.
Ascii ==
  << "+", "-", ".", "/", "0", "1", "2", "3", "4", "5", "6", "7", "8", "9", ":",
     "a", "b", "c", "d", "e", "f", "g", "h", "i", "j", "k", "l", "m",
     "n", "o", "p", "q", "r", "s", "t", "u", "v", "w", "x", "y", "z" >>

Ord(c) == CHOOSE i \in 1..Len(Ascii) : Ascii[i] = c

Digits == << "0", "1", "2", "3", "4", "5", "6", "7", "8", "9" >>

IsDigit(c) == \E i \in 1..10 : Digits[i] = c

DigitVal(c) == (CHOOSE i \in 1..10 : Digits[i] = c) - 1

\* the character class [0-9A-Za-z-] of the version package's extraMatchRE
IsIdentChar(c) == c = "-" \/ IsDigit(c) \/ (Ord(c) >= Ord("a") /\ Ord(c) <= Ord("z"))

\* Go's < on strings: bytewise lexicographic order
RECURSIVE StrLess(_, _)
StrLess(a, b) ==
  IF b = << >> THEN FALSE
  ELSE IF a = << >> THEN TRUE
  ELSE IF Head(a) = Head(b) THEN StrLess(Tail(a), Tail(b))
  ELSE Ord(Head(a)) < Ord(Head(b))

\* strings.HasPrefix
HasPrefix(s, p) == Len(s) >= Len(p) /\ SubSeq(s, 1, Len(p)) = p

\* strings.TrimPrefix
TrimPrefix(s, p) == IF HasPrefix(s, p) THEN SubSeq(s, Len(p) + 1, Len(s)) ELSE s

\* strings.Count(s, c) for a one-character separator
Count(s, c) == Cardinality({ i \in 1..Len(s) : s[i] = c })

\* strings.Split(s, c) for a one-character separator: always at least one piece
RECURSIVE SplitFrom(_, _, _)
SplitFrom(s, c, cur) ==
  IF s = << >> THEN << cur >>
  ELSE IF Head(s) = c THEN << cur >> \o SplitFrom(Tail(s), c, << >>)
  ELSE SplitFrom(Tail(s), c, Append(cur, Head(s)))

Split(s, c) == SplitFrom(s, c, << >>)

\* strconv.ParseUint(s, 10, 0): -1 stands for the error result
RECURSIVE AtoiAcc(_, _)
AtoiAcc(s, acc) ==
  IF s = << >> THEN acc
  ELSE IF ~IsDigit(Head(s)) THEN -1
  ELSE AtoiAcc(Tail(s), acc * 10 + DigitVal(Head(s)))

ParseUint(s) == IF s = << >> THEN -1 ELSE AtoiAcc(s, 0)

\* fmt.Sprintf("%d", n) for n >= 0
RECURSIVE Itoa(_)
Itoa(n) == IF n < 10 THEN << Digits[n + 1] >> ELSE Append(Itoa(n \div 10), Digits[(n % 10) + 1])

\* strings.Join(parts, c)
RECURSIVE Join(_, _)
Join(parts, c) ==
  IF parts = << >> THEN << >>
  ELSE IF Len(parts) = 1 THEN parts[1]
  ELSE parts[1] \o << c >> \o Join(Tail(parts), c)

(***************************************************************************)
(* k8s.io/apimachinery/pkg/util/version, as used by the tools.  A Version  *)
(* is a record; err = TRUE stands for the (nil, error) result of a parse.  *)
(***************************************************************************)

NoVersion == [err |-> TRUE, major |-> 0, minor |-> 0, patch |-> 0, pre |-> << >>, build |-> << >>]

\* length of the longest prefix of s made of digits
RECURSIVE DigitRun(_)
DigitRun(s) == IF s # << >> /\ IsDigit(Head(s)) THEN 1 + DigitRun(Tail(s)) ELSE 0

\* length of the longest prefix of s matching [0-9]+(\.[0-9]+)* (0 when none)
RECURSIVE NumbersLen(_)
NumbersLen(s) ==
  LET d == DigitRun(s)
      rest == SubSeq(s, d + 1, Len(s))
  IN IF d = 0 THEN 0
     ELSE IF Len(rest) >= 2 /\ rest[1] = "." /\ IsDigit(rest[2])
          THEN d + 1 + NumbersLen(Tail(rest))
          ELSE d

\* "illegal zero-prefixed version component"
ZeroPrefixed(comp) == Len(comp) > 1 /\ Head(comp) = "0"

\* [0-9A-Za-z-]+(\.[0-9A-Za-z-]+)*
IsIdentList(s) ==
  \A i \in 1..Len(Split(s, ".")) :
     LET comp == Split(s, ".")[i]
     IN comp # << >> /\ \A j \in 1..Len(comp) : IsIdentChar(comp[j])

\* position of the first "+" of s, Len(s) + 1 when there is none
PlusPos(s) ==
  IF \E i \in 1..Len(s) : s[i] = "+"
  THEN CHOOSE i \in 1..Len(s) : s[i] = "+" /\ \A j \in 1..(i - 1) : s[j] # "+"
  ELSE Len(s) + 1

\* extraMatchRE: (-pre)?(+build)? ; the inputs hold no white space
ExtraMatches(extra) ==
  LET p == PlusPos(extra)
      preStr == SubSeq(extra, 1, p - 1)
      buildStr == SubSeq(extra, p, Len(extra))
  IN /\ preStr = << >> \/ (Head(preStr) = "-" /\ Len(preStr) > 1 /\ IsIdentList(Tail(preStr)))
     /\ buildStr = << >> \/ (Len(buildStr) > 1 /\ IsIdentList(Tail(buildStr)))

ExtraPre(extra) ==
  LET preStr == SubSeq(extra, 1, PlusPos(extra) - 1)
  IN IF preStr = << >> THEN << >> ELSE Tail(preStr)

ExtraBuild(extra) ==
  LET buildStr == SubSeq(extra, PlusPos(extra), Len(extra))
  IN IF buildStr = << >> THEN << >> ELSE Tail(buildStr)

\* a numeric pre-release component must not be zero-prefixed
PreReleaseLegal(pre) ==
  \A i \in 1..Len(Split(pre, ".")) :
     LET comp == Split(pre, ".")[i]
     IN ~(ParseUint(comp) >= 0 /\ ZeroPrefixed(comp))

\* version.ParseSemantic
ParseSemantic(str) ==
  LET s == IF str # << >> /\ Head(str) = "v" THEN Tail(str) ELSE str
      n == NumbersLen(s)
      numbers == SubSeq(s, 1, n)
      extra == SubSeq(s, n + 1, Len(s))
      components == Split(numbers, ".")
  IN IF n = 0 THEN NoVersion
     ELSE IF Len(components) # 3 THEN NoVersion
     ELSE IF \E i \in 1..3 : ZeroPrefixed(components[i]) THEN NoVersion
     ELSE IF extra # << >> /\ ~ExtraMatches(extra) THEN NoVersion
     ELSE IF extra # << >> /\ ~PreReleaseLegal(ExtraPre(extra)) THEN NoVersion
     ELSE [err |-> FALSE,
           major |-> ParseUint(components[1]),
           minor |-> ParseUint(components[2]),
           patch |-> ParseUint(components[3]),
           pre |-> IF extra = << >> THEN << >> ELSE ExtraPre(extra),
           build |-> IF extra = << >> THEN << >> ELSE ExtraBuild(extra)]

\* (*Version).String
VersionString(v) ==
  Itoa(v.major) \o << "." >> \o Itoa(v.minor) \o << "." >> \o Itoa(v.patch)
    \o (IF v.pre # << >> THEN << "-" >> \o v.pre ELSE << >>)
    \o (IF v.build # << >> THEN << "+" >> \o v.build ELSE << >>)

\* (*Version).WithPatch
WithPatch(v, patch) == [v EXCEPT !.patch = patch]

\* the pre-release part of compareInternal, on the split labels
RECURSIVE ComparePre(_, _)
ComparePre(vPR, oPR) ==
  IF vPR = << >> /\ oPR = << >> THEN 0
  ELSE IF vPR = << >> THEN -1
  ELSE IF oPR = << >> THEN 1
  ELSE IF Head(vPR) = Head(oPR) THEN ComparePre(Tail(vPR), Tail(oPR))
  ELSE LET vNum == ParseUint(Head(vPR))
           oNum == ParseUint(Head(oPR))
       IN IF vNum >= 0 /\ oNum >= 0 /\ oNum < vNum THEN 1
          ELSE IF vNum >= 0 /\ oNum >= 0 /\ oNum > vNum THEN -1
          ELSE IF StrLess(Head(oPR), Head(vPR)) THEN 1
          ELSE -1

\* (*Version).compareInternal for two semantic versions
CompareInternal(v, o) ==
  IF v.major # o.major THEN (IF o.major < v.major THEN 1 ELSE -1)
  ELSE IF v.minor # o.minor THEN (IF o.minor < v.minor THEN 1 ELSE -1)
  ELSE IF v.patch # o.patch THEN (IF o.patch < v.patch THEN 1 ELSE -1)
  ELSE IF v.pre = << >> /\ o.pre # << >> THEN 1
  ELSE IF v.pre # << >> /\ o.pre = << >> THEN -1
  ELSE IF v.pre = o.pre THEN 0
  ELSE ComparePre(Split(v.pre, "."), Split(o.pre, "."))

\* (*Version).LessThan
LessThan(v, o) == CompareInternal(v, o) = -1

\* (*Version).AtLeast
AtLeast(v, o) == CompareInternal(v, o) # -1

(***************************************************************************)
(* References (github.Reference): a name and the SHA of the object.        *)
(***************************************************************************)

\* the nil *github.Reference
NilRef == [Ref |-> << >>, SHA |-> -1]

RefsTags == << "r", "e", "f", "s", "/", "t", "a", "g", "s", "/" >>

RefsHeads == << "r", "e", "f", "s", "/", "h", "e", "a", "d", "s", "/" >>

BranchMaster == << "m", "a", "s", "t", "e", "r" >>

PrefixBranch == << "r", "e", "l", "e", "a", "s", "e", "-" >>

Alpha == << "a", "l", "p", "h", "a" >>

Beta == << "b", "e", "t", "a" >>

Rc == << "r", "c" >>

\* TagToVersion: strip refs/tags/, add a missing .PATCH, parse
TagToVersion(tag) ==
  LET ver == TrimPrefix(tag, RefsTags)
  IN ParseSemantic(IF Count(ver, ".") < 2 THEN ver \o << ".", "0" >> ELSE ver)

\* TagRefToVersion
TagRefToVersion(r) == TagToVersion(r.Ref)

\* BranchRefToVersion without the test for the prefix
BranchRefToVersionAnyPrefix(r, prefix) ==
  LET num == TrimPrefix(TrimPrefix(r.Ref, RefsHeads), prefix)
  IN ParseSemantic(IF Count(num, ".") < 2 THEN num \o << ".", "0" >> ELSE num)

\* BranchRefToVersion
BranchRefToVersion(r, prefix) ==
  LET ver == TrimPrefix(r.Ref, RefsHeads)
      num == TrimPrefix(ver, prefix)
  IN IF ~HasPrefix(ver, prefix) THEN NoVersion
     ELSE ParseSemantic(IF Count(num, ".") < 2 THEN num \o << ".", "0" >> ELSE num)

(***************************************************************************)
(* The release-notes range selection of pkg/utils.go.                      *)
(***************************************************************************)

\* a search for the exact version that gives up at the first unparsable ref
RECURSIVE findExactVersionRefStrict(_, _)
findExactVersionRefStrict(target, list) ==
  IF list = << >> THEN NilRef
  ELSE LET ver == TagToVersion(Head(list).Ref)
       IN IF ver.err THEN NilRef
          ELSE IF VersionString(target) = VersionString(ver) THEN Head(list)
          ELSE findExactVersionRefStrict(target, Tail(list))

\* findExactVersionRef: the first ref whose version prints like the target
RECURSIVE findExactVersionRef(_, _)
findExactVersionRef(target, list) ==
  IF list = << >> THEN NilRef
  ELSE LET ver == TagToVersion(Head(list).Ref)
       IN IF ver.err THEN findExactVersionRef(target, Tail(list))
          ELSE IF VersionString(target) = VersionString(ver) THEN Head(list)
          ELSE findExactVersionRef(target, Tail(list))

\* the loop of findLargestMinorForMajorRef, with its two locals
RECURSIVE LargestMinorLoop(_, _, _)
LargestMinorLoop(largest, found, list) ==
  IF list = << >> THEN found
  ELSE LET ver == TagToVersion(Head(list).Ref)
       IN IF ver.err THEN LargestMinorLoop(largest, found, Tail(list))
          ELSE IF LessThan(largest, ver) /\ largest.major = ver.major
               THEN LargestMinorLoop(ver, Head(list), Tail(list))
          ELSE LargestMinorLoop(largest, found, Tail(list))

findLargestMinorForMajorRef(largest, list) == LargestMinorLoop(largest, NilRef, list)

\* the loop of findPreviousPreRelease, with its two locals
RECURSIVE PreviousPreLoop(_, _, _, _)
PreviousPreLoop(target, largest, found, list) ==
  IF list = << >> THEN found
  ELSE LET ver == TagToVersion(Head(list).Ref)
       IN IF ver.err THEN PreviousPreLoop(target, largest, found, Tail(list))
          ELSE IF LessThan(largest, ver) /\ LessThan(ver, target)
               THEN PreviousPreLoop(target, ver, Head(list), Tail(list))
          ELSE PreviousPreLoop(target, largest, found, Tail(list))

\* a search that keeps the last version below the target instead of the
\* largest one
findPreviousPreReleaseLast(target, list) ==
  LET below == SelectSeq(list, LAMBDA r : ~TagToVersion(r.Ref).err /\ LessThan(TagToVersion(r.Ref), target))
  IN IF below = << >> THEN NilRef ELSE below[Len(below)]

findPreviousPreRelease(target, list) ==
  PreviousPreLoop(target, ParseSemantic(<< "v", "0", ".", "0", ".", "0" >>), NilRef, list)

\* the MINOR / MAJOR rollback shared by the final and the alpha.1 branch
MinorRollback(ver, list) ==
  IF ver.minor - 1 < 0
  THEN IF ver.major - 1 < 0 THEN NilRef
       ELSE findLargestMinorForMajorRef(
              ParseSemantic(<< "v" >> \o Itoa(ver.major - 1) \o << ".", "0", ".", "0" >>), list)
  ELSE findExactVersionRef(
         ParseSemantic(<< "v" >> \o Itoa(ver.major) \o << "." >> \o Itoa(ver.minor - 1) \o << ".", "0" >>),
         list)

\* the result of a call: the returned reference, the error flag, and whether
\* the call ended in a run-time panic (index out of range)
Returned(r) == [ref |-> r, err |-> FALSE, panic |-> FALSE]

Failed == [ref |-> NilRef, err |-> TRUE, panic |-> FALSE]

Panicked == [ref |-> NilRef, err |-> FALSE, panic |-> TRUE]

\* the exit label: a nil result is replaced by the input reference
ExitWith(found, r) == Returned(IF found = NilRef THEN r ELSE found)

\* the version FindReleaseNotesSinceRef parses out of the input reference
SinceRefVersion(r) == ParseSemantic(r.Ref)

FindReleaseNotesSinceRef(r, list) ==
  LET ver == SinceRefVersion(r)
      pre == Split(ver.pre, ".")
  IN IF ver.err THEN Failed
     ELSE IF ver.pre = << >>
     THEN IF ver.patch = 0
          THEN ExitWith(MinorRollback(ver, list), r)
          ELSE ExitWith(findExactVersionRef(
                          WithPatch(ParseSemantic(VersionString(ver)), ver.patch - 1), list), r)
     ELSE IF pre[1] = Alpha /\ Len(pre) < 2 THEN Panicked
     ELSE IF pre[1] = Alpha /\ pre[2] = << "0" >> THEN ExitWith(NilRef, r)
     ELSE IF pre[1] = Alpha /\ pre[2] = << "1" >> THEN ExitWith(MinorRollback(ver, list), r)
     ELSE ExitWith(findPreviousPreRelease(ver, list), r)

(***************************************************************************)
(* Inputs of the release-notes range selection.                            *)
(***************************************************************************)

MaxMajor == 1

MaxMinor == 1

MaxPatch == 2

MaxRefs == 2

\* "vMAJOR.MINOR.PATCH[-label]", optionally under refs/tags/
TagName(prefix, major, minor, patch, label) ==
  prefix \o << "v" >> \o Itoa(major) \o << "." >> \o Itoa(minor) \o << "." >> \o Itoa(patch)
    \o (IF label = << >> THEN << >> ELSE << "-" >> \o label)

Label(stage, n) == stage \o << "." >> \o Itoa(n)

\* pre-release labels of the release train, and three that are not of the
\* form stage.n
TrainLabels == { Label(Alpha, 0), Label(Alpha, 1), Label(Alpha, 2), Label(Beta, 0), Label(Rc, 1) }

OddLabels == { Alpha, Beta, Label(Alpha, 1) \o << ".", "2" >> }

\* the target is named as GitHub names it (refs/tags/...) or by the bare tag:
\* every final release of the grid, every release-train label on every X.Y.0,
\* and the odd labels on the newest X.Y.0
TargetNames ==
  { TagName(prefix, major, minor, patch, << >>) :
      prefix \in { RefsTags, << >> }, major \in 0..MaxMajor, minor \in 0..MaxMinor,
      patch \in 0..MaxPatch }
  \cup
  { TagName(prefix, major, minor, 0, label) :
      prefix \in { RefsTags, << >> }, major \in 0..MaxMajor, minor \in 0..MaxMinor,
      label \in TrainLabels }
  \cup
  { TagName(prefix, MaxMajor, MaxMinor, 0, label) : prefix \in { RefsTags, << >> }, label \in OddLabels }

NonSemVerName == RefsTags \o << "s", "o", "m", "e", "-", "r", "e", "f" >>

\* the names of the tag list (GitHub lists tags as refs/tags/<name>): two
\* minors of the previous major, the previous minor with and without .PATCH,
\* the newest minor with a patch and two pre-releases, and a non-SemVer name
ListNames ==
  { TagName(RefsTags, MaxMajor - 1, MaxMinor + 1, 0, << >>),
    TagName(RefsTags, MaxMajor - 1, MaxMinor + 9, 0, << >>),
    TagName(RefsTags, MaxMajor, MaxMinor - 1, 0, << >>),
    RefsTags \o << "v" >> \o Itoa(MaxMajor) \o << "." >> \o Itoa(MaxMinor - 1),
    TagName(RefsTags, MaxMajor, MaxMinor, 0, << >>),
    TagName(RefsTags, MaxMajor, MaxMinor, MaxPatch - 1, << >>),
    TagName(RefsTags, MaxMajor, MaxMinor, 0, Label(Alpha, 0)),
    TagName(RefsTags, MaxMajor, MaxMinor, 0, Label(Beta, 0)),
    NonSemVerName }

\* a list of references: the element at position i has SHA i
RefList(names) == [ i \in 1..Len(names) |-> [Ref |-> names[i], SHA |-> i] ]

RefLists == UNION { { RefList(names) : names \in [1..n -> ListNames] } : n \in 0..MaxRefs }

(***************************************************************************)
(* Latest branch / latest tag selection of pkg/utils.go.                   *)
(***************************************************************************)

VersionZero == ParseSemantic(<< "v", "0", ".", "0", ".", "0" >>)

\* the loop of FindLatestBranch, with its two locals
RECURSIVE LatestBranchLoop(_, _, _, _)
LatestBranchLoop(minV, found, list, prefix) ==
  IF list = << >> THEN found
  ELSE LET v == BranchRefToVersion(Head(list), prefix)
       IN IF v.err THEN LatestBranchLoop(minV, found, Tail(list), prefix)
          ELSE IF LessThan(minV, v) THEN LatestBranchLoop(v, Head(list), Tail(list), prefix)
          ELSE LatestBranchLoop(minV, found, Tail(list), prefix)

\* FindLatestBranch: NilRef stands for the (nil, error) result
FindLatestBranch(list, prefix) == LatestBranchLoop(VersionZero, NilRef, list, prefix)

\* the loop of FindLatestTag, with its two locals
RECURSIVE LatestTagLoop(_, _, _, _)
LatestTagLoop(minV, found, list, branchV) ==
  IF list = << >> THEN found
  ELSE LET v == TagRefToVersion(Head(list))
       IN IF v.err THEN LatestTagLoop(minV, found, Tail(list), branchV)
          ELSE IF v.major # branchV.major \/ v.minor # branchV.minor
               THEN LatestTagLoop(minV, found, Tail(list), branchV)
          ELSE IF LessThan(minV, v) THEN LatestTagLoop(v, Head(list), Tail(list), branchV)
          ELSE LatestTagLoop(minV, found, Tail(list), branchV)

\* FindLatestTag: NilRef stands for the (nil, error) result
FindLatestTag(list, branchV) == LatestTagLoop(VersionZero, NilRef, list, branchV)

(***************************************************************************)
(* Ref filters, ref diff and branch-for-tag matching of pkg/utils.go.      *)
(***************************************************************************)

\* TrimTags with the comparison turned round: keeps what is not above minV
RECURSIVE TrimTagsReversed(_, _)
TrimTagsReversed(list, minV) ==
  IF list = << >> THEN << >>
  ELSE LET v == TagRefToVersion(Head(list))
       IN IF v.err THEN TrimTagsReversed(Tail(list), minV)
          ELSE IF LessThan(minV, v) THEN TrimTagsReversed(Tail(list), minV)
          ELSE << Head(list) >> \o TrimTagsReversed(Tail(list), minV)

\* TrimTags: the loop over refs, appending what is kept
RECURSIVE TrimTags(_, _)
TrimTags(list, minV) ==
  IF list = << >> THEN << >>
  ELSE LET v == TagRefToVersion(Head(list))
       IN IF v.err THEN TrimTags(Tail(list), minV)
          ELSE IF LessThan(v, minV) THEN TrimTags(Tail(list), minV)
          ELSE << Head(list) >> \o TrimTags(Tail(list), minV)

\* TrimBranches comparing the whole version, as TrimTags does
RECURSIVE TrimBranchesFullCompare(_, _, _)
TrimBranchesFullCompare(list, minV, prefix) ==
  IF list = << >> THEN << >>
  ELSE LET v == BranchRefToVersion(Head(list), prefix)
       IN IF v.err THEN TrimBranchesFullCompare(Tail(list), minV, prefix)
          ELSE IF LessThan(v, minV) THEN TrimBranchesFullCompare(Tail(list), minV, prefix)
          ELSE << Head(list) >> \o TrimBranchesFullCompare(Tail(list), minV, prefix)

\* TrimBranches: the loop over refs, comparing MAJOR and MINOR only
RECURSIVE TrimBranches(_, _, _)
TrimBranches(list, minV, prefix) ==
  IF list = << >> THEN << >>
  ELSE LET v == BranchRefToVersion(Head(list), prefix)
       IN IF v.err THEN TrimBranches(Tail(list), minV, prefix)
          ELSE IF v.major < minV.major \/ (minV.major = v.major /\ v.minor < minV.minor)
               THEN TrimBranches(Tail(list), minV, prefix)
          ELSE << Head(list) >> \o TrimBranches(Tail(list), minV, prefix)

\* FindNewRefs comparing the whole reference, SHA included
RECURSIVE FindNewRefsBySHA(_, _)
FindNewRefsBySHA(src, dest) ==
  IF src = << >> THEN << >>
  ELSE IF \E j \in 1..Len(dest) : Head(src) = dest[j]
       THEN FindNewRefsBySHA(Tail(src), dest)
       ELSE << Head(src) >> \o FindNewRefsBySHA(Tail(src), dest)

\* FindNewRefs: the elements of src whose name no element of dest carries
RECURSIVE FindNewRefs(_, _)
FindNewRefs(src, dest) ==
  IF src = << >> THEN << >>
  ELSE IF \E j \in 1..Len(dest) : Head(src).Ref = dest[j].Ref
       THEN FindNewRefs(Tail(src), dest)
       ELSE << Head(src) >> \o FindNewRefs(Tail(src), dest)

\* the version FindBranchHEADForTag reads out of the tag: no .PATCH is added
HEADTagVersion(tag) == ParseSemantic(TrimPrefix(tag.Ref, RefsTags))

\* the version FindBranchHEADForTag reads out of a branch: the prefix is
\* stripped when present, not required
HEADBranchVersion(branch, prefixBranch) ==
  LET branchRef == TrimPrefix(TrimPrefix(branch.Ref, RefsHeads), prefixBranch)
  IN ParseSemantic(IF Count(branchRef, ".") < 2 THEN branchRef \o << ".", "0" >> ELSE branchRef)

\* the loop of FindBranchHEADForTag
RECURSIVE BranchHEADLoop(_, _, _, _)
BranchHEADLoop(tagVer, prefixBranch, masterSHA, branches) ==
  IF branches = << >> THEN masterSHA
  ELSE IF TrimPrefix(Head(branches).Ref, RefsHeads) = BranchMaster
       THEN BranchHEADLoop(tagVer, prefixBranch, masterSHA, Tail(branches))
  ELSE LET branchVer == HEADBranchVersion(Head(branches), prefixBranch)
       IN IF branchVer.err THEN BranchHEADLoop(tagVer, prefixBranch, masterSHA, Tail(branches))
          ELSE IF tagVer.major = branchVer.major /\ tagVer.minor = branchVer.minor
               THEN Head(branches).SHA
          ELSE BranchHEADLoop(tagVer, prefixBranch, masterSHA, Tail(branches))

\* FindBranchHEADForTag
FindBranchHEADForTag(tag, prefixBranch, masterSHA, branches) ==
  IF HEADTagVersion(tag).err THEN masterSHA
  ELSE BranchHEADLoop(HEADTagVersion(tag), prefixBranch, masterSHA, branches)

(***************************************************************************)
(* k8s-latest-version: process and getLatestTag of main.go.                *)
(***************************************************************************)

\* strings.Contains
Contains(s, sub) == \E i \in 0..(Len(s) - Len(sub)) : SubSeq(s, i + 1, i + Len(sub)) = sub

InCutset(c, cutset) == \E i \in 1..Len(cutset) : cutset[i] = c

RECURSIVE TrimLeft(_, _)
TrimLeft(s, cutset) ==
  IF s # << >> /\ InCutset(Head(s), cutset) THEN TrimLeft(Tail(s), cutset) ELSE s

RECURSIVE TrimRight(_, _)
TrimRight(s, cutset) ==
  IF s # << >> /\ InCutset(s[Len(s)], cutset) THEN TrimRight(SubSeq(s, 1, Len(s) - 1), cutset) ELSE s

\* strings.Trim(s, cutset): every leading and trailing character of the cutset
Trim(s, cutset) == TrimRight(TrimLeft(s, cutset), cutset)

\* the result of process: the line printed, or an error
LineResult(line) == [line |-> line, err |-> FALSE]

LineError == [line |-> << >>, err |-> TRUE]

\* the loop of getLatestTag, with its two locals; hasBranch is branchV != nil
RECURSIVE LatestLineLoop(_, _, _, _, _)
LatestLineLoop(minV, result, lines, hasBranch, branchV) ==
  IF lines = << >> THEN result
  ELSE LET v == TagToVersion(Head(lines))
       IN IF v.err THEN LatestLineLoop(minV, result, Tail(lines), hasBranch, branchV)
          ELSE IF hasBranch /\ (v.major # branchV.major \/ v.minor # branchV.minor)
               THEN LatestLineLoop(minV, result, Tail(lines), hasBranch, branchV)
          ELSE IF LessThan(minV, v) THEN LatestLineLoop(v, Head(lines), Tail(lines), hasBranch, branchV)
          ELSE LatestLineLoop(minV, result, Tail(lines), hasBranch, branchV)

\* getLatestTag
getLatestTag(lines, hasBranch, branchV) ==
  LET result == LatestLineLoop(VersionZero, << >>, lines, hasBranch, branchV)
  IN IF Len(result) = 0 THEN LineError ELSE LineResult(result)

\* the version process extracts from the -branch flag
LatestBranchFlagVersion(branch, prefix) ==
  LET ver == Trim(branch, prefix)
  IN ParseSemantic(IF Count(ver, ".") < 2 THEN ver \o << ".", "0" >> ELSE ver)

\* process of k8s-latest-version, on the lines read from stdin
LatestVersionProcess(lines, branch, prefix) ==
  IF Len(branch) # 0
  THEN IF ~Contains(branch, prefix) THEN LineError
       ELSE IF LatestBranchFlagVersion(branch, prefix).err THEN LineError
       ELSE getLatestTag(lines, TRUE, LatestBranchFlagVersion(branch, prefix))
  ELSE getLatestTag(lines, FALSE, NoVersion)

(***************************************************************************)
(* k8s-repo-ff: the fast-forward window and the merge.                     *)
(***************************************************************************)

\* minVersion of process: MAJOR.MINOR.0-beta.0 of the latest branch
WindowMin(branchV) ==
  ParseSemantic(Itoa(branchV.major) \o << "." >> \o Itoa(branchV.minor)
                  \o << ".", "0", "-" >> \o Beta \o << ".", "0" >>)

\* maxVersion of process: MAJOR.MINOR.0-rc.1 of the latest branch
WindowMax(branchV) ==
  ParseSemantic(Itoa(branchV.major) \o << "." >> \o Itoa(branchV.minor)
                  \o << ".", "0", "-" >> \o Rc \o << ".", "1" >>)

InFastForwardWindowClosed(tagV, branchV) ==
  AtLeast(tagV, WindowMin(branchV)) /\ ~LessThan(WindowMax(branchV), tagV)

\* the condition of the fast-forward window check of process
InFastForwardWindow(tagV, branchV) ==
  AtLeast(tagV, WindowMin(branchV)) /\ LessThan(tagV, WindowMax(branchV))

\* FormatMergeCommitMessage: Merge branch "<head>" into <base>
FormatMergeCommitMessage(base, head) ==
  << "M", "e", "r", "g", "e", " ", "b", "r", "a", "n", "c", "h", " ", "\"" >>
    \o TrimPrefix(head, RefsHeads) \o << "\"", " ", "i", "n", "t", "o", " " >>
    \o TrimPrefix(base, RefsHeads)

\* the nil *github.RepositoryCommit
NilCommit == [SHA |-> "nil", Message |-> << >>]

\* http.StatusCreated, http.StatusNoContent
StatusCreated == 201

StatusNoContent == 204

\* a status process does not expect from the merge endpoint
StatusConflict == 409

(***************************************************************************)
(* Inputs of k8s-repo-ff: the tags and branches of the destination.        *)
(***************************************************************************)

MaxDestTags == 2

MaxDestBranches == 2

\* release-train labels as pairs (stage, n)
DestLabels == { << Alpha, 3 >>, << Beta, 0 >>, << Rc, 0 >>, << Rc, 1 >> }

DestTagNames ==
  { TagName(RefsTags, MaxMajor, MaxMinor, 0, Label(l[1], l[2])) : l \in DestLabels }
  \cup { TagName(RefsTags, MaxMajor, MaxMinor, 0, << >>),
         TagName(RefsTags, MaxMajor, MaxMinor - 1, 0, << >>) }

BranchName(prefix, major, minor) == RefsHeads \o prefix \o Itoa(major) \o << "." >> \o Itoa(minor)

DestBranchNames ==
  { BranchName(PrefixBranch, MaxMajor, MaxMinor),
    BranchName(PrefixBranch, MaxMajor, MaxMinor - 1),
    RefsHeads \o BranchMaster }

DestTagLists == UNION { { RefList(names) : names \in [1..n -> DestTagNames] } : n \in 0..MaxDestTags }

DestBranchLists ==
  UNION { { RefList(names) : names \in [1..n -> DestBranchNames] } : n \in 0..MaxDestBranches }

(***************************************************************************)
(* State.                                                                  *)
(***************************************************************************)

VARIABLES
  ref,           \* FindReleaseNotesSinceRef: the input reference
  refs,          \* FindReleaseNotesSinceRef: the list of tag references
  notesPc,       \* "call" before the call, "done" after it
  notes,         \* the result of the call
  tagsDest,      \* k8s-repo-ff: the tags of the destination repository
  branchesDest,  \* k8s-repo-ff: the branches of the destination repository
  force,         \* d.Force
  dryRun,        \* d.DryRun
  ffPc,          \* the position of process
  latestBranch,  \* local of process
  latestTag,     \* local of process
  ffOut,         \* what process returned: branch, commit and the type of the error
  merges,        \* the merge requests sent to the destination repository
  cmpStatus,     \* local of process: cmp.GetStatus(), "error" when the comparison failed
  yes,           \* what ShowPrompt answered: "yes", "no" or "error"
  uOp,           \* pkg/utils.go: the helper that is called
  uRefs,         \* its list of references (refs, src)
  uRefs2,        \* its second list (dest, branches)
  uRef,          \* its single reference (ref, tag)
  uVer,          \* its version argument (minV, branchV)
  uPrefix,       \* its branch prefix
  uPc,           \* "call" before the call, "done" after it
  uOut,          \* what the helper returned
  lvLines,       \* k8s-latest-version: the lines of stdin
  lvBranch,      \* d.Branch
  lvPc,          \* "call" before process, "done" after it
  lvOut,         \* what process returned
  tagsSrc,       \* k8s-repo-sync: the tags of the source repository
  branchesSrc,   \* the branches of the source repository
  minVersion,    \* d.MinVersion
  newTags,       \* local of process
  newBranches,   \* local of process
  syncPc,        \* the position of process
  syncOut,       \* what process returned: the references and the error
  created,       \* the calls of GitHubCreateRef: the reference, and whether a request was sent
  releaseTag,    \* k8s-create-release: d.ReleaseTag
  tagExists,     \* the destination repository has the tag
  releaseExists, \* the destination repository has a release for the tag
  releaseAssets, \* d.ReleaseAssets that the release does not hold yet
  relPc,         \* the position of process
  relOut,        \* the error process returned
  relWrites,     \* the release and asset requests sent to the destination repository
  bodyStr,       \* local of process: the release notes
  release,       \* local of process: what GitHubGetCreateRelease returned
  relAnswers,    \* what the destination repository answered to GitHubGetCreateRelease
  toolSHAs       \* what getReleaseNotesToolSHAs returned

varsNotes == << ref, refs, notesPc, notes >>

varsFF == << tagsDest, branchesDest, force, dryRun, ffPc, latestBranch, latestTag, ffOut, merges,
            cmpStatus, yes >>

\* the part of k8s-repo-ff's state the other tools do not share
varsFFOnly == << ffPc, latestBranch, latestTag, ffOut, merges, cmpStatus >>

varsUtils == << uOp, uRefs, uRefs2, uRef, uVer, uPrefix, uPc, uOut >>

varsLV == << lvLines, lvBranch, lvPc, lvOut >>

varsSync == << tagsSrc, branchesSrc, minVersion, newTags, newBranches, syncPc, syncOut, created >>

varsRel == << releaseTag, tagExists, releaseExists, releaseAssets, relPc, relOut, relWrites,
             bodyStr, release, relAnswers, toolSHAs >>

vars == << ref, refs, notesPc, notes,
           tagsDest, branchesDest, force, dryRun, ffPc, latestBranch, latestTag, ffOut, merges,
           cmpStatus, yes,
           uOp, uRefs, uRefs2, uRef, uVer, uPrefix, uPc, uOut,
           lvLines, lvBranch, lvPc, lvOut,
           tagsSrc, branchesSrc, minVersion, newTags, newBranches, syncPc, syncOut, created,
           releaseTag, tagExists, releaseExists, releaseAssets, relPc, relOut, relWrites,
           bodyStr, release, relAnswers, toolSHAs >>

NoResult == [ref |-> NilRef, err |-> FALSE, panic |-> FALSE]

NoOut == [branch |-> NilRef, commit |-> NilCommit, err |-> "none"]

\* process returns (nil, nil, err)
FFError(type) == [branch |-> NilRef, commit |-> NilCommit, err |-> type]

IdleNotes ==
  /\ ref = NilRef
  /\ refs = << >>
  /\ notesPc = "idle"
  /\ notes = NoResult

IdleFF ==
  /\ tagsDest = << >>
  /\ branchesDest = << >>
  /\ force = FALSE
  /\ dryRun = TRUE
  /\ ffPc = "idle"
  /\ latestBranch = NilRef
  /\ latestTag = NilRef
  /\ ffOut = NoOut
  /\ merges = << >>
  /\ cmpStatus = "none"
  /\ yes = "none"

\* what a helper of pkg/utils.go returns: a list, a reference, a SHA or a
\* version, and the error flag
NoUtilOut == [refs |-> << >>, ref |-> NilRef, sha |-> -1, ver |-> NoVersion, err |-> FALSE]

IdleUtils ==
  /\ uOp = "none"
  /\ uRefs = << >>
  /\ uRefs2 = << >>
  /\ uRef = NilRef
  /\ uVer = NoVersion
  /\ uPrefix = << >>
  /\ uPc = "idle"
  /\ uOut = NoUtilOut

IdleLV ==
  /\ lvLines = << >>
  /\ lvBranch = << >>
  /\ lvPc = "idle"
  /\ lvOut = LineResult(<< >>)

NoSyncOut == [refs |-> << >>, err |-> FALSE]

\* getReleaseNotesToolSHAs has not returned: -1 stands for ""
NoSHAs == [start |-> -1, end |-> -1, err |-> "none", failed |-> FALSE]

\* no request of GitHubGetCreateRelease was answered yet
NoAnswers == [getFailed |-> FALSE, lookup |-> "none", createFailed |-> FALSE]

\* the nil *github.RepositoryRelease, read through its getters
NilRelease == [TagName |-> << >>, Name |-> << >>, Body |-> << >>, Draft |-> FALSE, Prerelease |-> FALSE]

IdleSync ==
  /\ tagsSrc = << >>
  /\ branchesSrc = << >>
  /\ minVersion = NoVersion
  /\ newTags = << >>
  /\ newBranches = << >>
  /\ syncPc = "idle"
  /\ syncOut = NoSyncOut
  /\ created = << >>

IdleRel ==
  /\ releaseTag = << >>
  /\ tagExists = FALSE
  /\ releaseExists = FALSE
  /\ releaseAssets = 0
  /\ relPc = "idle"
  /\ relOut = FALSE
  /\ relWrites = << >>
  /\ bodyStr = << >>
  /\ release = NilRelease
  /\ relAnswers = NoAnswers
  /\ toolSHAs = NoSHAs

\* none of the tools added to the two first is running
IdleOthers == IdleUtils /\ IdleLV /\ IdleSync /\ IdleRel

UnchangedOthers ==
  /\ UNCHANGED varsUtils
  /\ UNCHANGED varsLV
  /\ UNCHANGED varsSync
  /\ UNCHANGED varsRel

(***************************************************************************)
(* FindReleaseNotesSinceRef as a one-step machine.                         *)
(***************************************************************************)

InitNotes ==
  /\ ref \in { [Ref |-> n, SHA |-> 0] : n \in TargetNames }
  /\ refs \in RefLists
  /\ notesPc = "call"
  /\ notes = NoResult
  /\ IdleFF
  /\ IdleOthers

CallFindReleaseNotesSinceRef ==
  /\ notesPc = "call"
  /\ notes' = FindReleaseNotesSinceRef(ref, refs)
  /\ notesPc' = "done"
  /\ UNCHANGED << ref, refs >>
  /\ UNCHANGED varsFF
  /\ UnchangedOthers

NextNotes == CallFindReleaseNotesSinceRef

SpecNotes == InitNotes /\ [][NextNotes]_vars

(***************************************************************************)
(* process of k8s-repo-ff, one action per interaction with the outside.    *)
(***************************************************************************)

InitFF ==
  /\ tagsDest \in DestTagLists
  /\ branchesDest \in DestBranchLists
  /\ force \in BOOLEAN
  /\ dryRun \in BOOLEAN
  /\ ffPc = "start"
  /\ latestBranch = NilRef
  /\ latestTag = NilRef
  /\ ffOut = NoOut
  /\ merges = << >>
  /\ cmpStatus = "none"
  /\ yes = "none"
  /\ IdleNotes
  /\ IdleOthers

FFReturn(out) ==
  /\ ffOut' = out
  /\ ffPc' = "done"

\* GitHubGetTags and GitHubGetBranches: either request may fail
FFGetRefs ==
  /\ ffPc = "start"
  /\ \E failed \in BOOLEAN :
       IF failed THEN FFReturn(FFError("genericError"))
       ELSE ffPc' = "select" /\ UNCHANGED ffOut
  /\ UNCHANGED << tagsDest, branchesDest, force, dryRun, latestBranch, latestTag, merges, cmpStatus, yes >>
  /\ UNCHANGED varsNotes
  /\ UnchangedOthers

\* FindLatestBranch, FindLatestTag and the fast-forward window check
FFSelect ==
  /\ ffPc = "select"
  /\ LET branch == FindLatestBranch(branchesDest, PrefixBranch)
         branchV == BranchRefToVersion(branch, PrefixBranch)
         tag == IF branch = NilRef THEN NilRef ELSE FindLatestTag(tagsDest, branchV)
     IN /\ latestBranch' = branch
        /\ latestTag' = tag
        /\ IF branch = NilRef THEN FFReturn(FFError("releaseBranchError"))
           ELSE IF tag = NilRef THEN FFReturn(FFError("genericError"))
           ELSE IF ~InFastForwardWindow(TagRefToVersion(tag), branchV)
                THEN FFReturn(FFError("fastForwardWindowError"))
           ELSE ffPc' = "compare" /\ UNCHANGED ffOut
  /\ UNCHANGED << tagsDest, branchesDest, force, dryRun, merges, cmpStatus, yes >>
  /\ UNCHANGED varsNotes
  /\ UnchangedOthers

\* the switch on cmp.GetStatus() that takes "behind" for an error too
IdenticalOrBehind(status) == status \in { "identical", "behind" }

\* the switch on cmp.GetStatus(): only "identical" is an error
IdenticalBranches(status) == status = "identical"

\* GitHubCompareBranches and the switch on its status
FFCompare ==
  /\ ffPc = "compare"
  /\ \E status \in { "error", "identical", "ahead", "behind", "diverged" } :
       /\ cmpStatus' = status
       /\ IF status = "error" THEN FFReturn(FFError("genericError"))
          ELSE IF IdenticalBranches(status) THEN FFReturn(FFError("identicalBranchesError"))
          ELSE ffPc' = (IF force THEN "write" ELSE "prompt") /\ UNCHANGED ffOut
  /\ UNCHANGED << tagsDest, branchesDest, force, dryRun, latestBranch, latestTag, merges, yes >>
  /\ UNCHANGED varsNotes
  /\ UnchangedOthers

\* ShowPrompt
FFPrompt ==
  /\ ffPc = "prompt"
  /\ \E answer \in { "error", "yes", "no" } :
       /\ yes' = answer
       /\ IF answer = "error" THEN FFReturn(FFError("genericError"))
          ELSE IF answer = "yes" THEN ffPc' = "write" /\ UNCHANGED ffOut
          ELSE FFReturn([branch |-> NilRef, commit |-> NilCommit, err |-> "nil"])
  /\ UNCHANGED << tagsDest, branchesDest, force, dryRun, latestBranch, latestTag, merges, cmpStatus >>
  /\ UNCHANGED varsNotes
  /\ UnchangedOthers

\* the switch on mergeStatus that takes 204 No Content for a merge
MergeOutcomeNoContentMerged(response, branch, commit) ==
  IF response = 0 THEN FFError("genericError")
  ELSE IF response \in { StatusCreated, StatusNoContent }
       THEN [branch |-> branch, commit |-> commit, err |-> "nil"]
  ELSE FFError("genericError")

\* what process returns after GitHubMergeBranch: the error of the request
\* (response 0: no response came), then the switch on mergeStatus
MergeOutcome(response, branch, commit) ==
  IF response = 0 THEN FFError("genericError")
  ELSE IF response = StatusCreated THEN [branch |-> branch, commit |-> commit, err |-> "nil"]
  ELSE IF response = StatusNoContent THEN FFError("noContentError")
  ELSE FFError("genericError")

\* the write label: GitHubMergeBranch and the switch on the response status
FFMerge ==
  /\ ffPc = "write"
  /\ LET message == FormatMergeCommitMessage(latestBranch.Ref, BranchMaster)
     IN IF dryRun
        THEN /\ FFReturn([branch |-> latestBranch,
                          commit |-> [SHA |-> "dry-run-sha", Message |-> message],
                          err |-> "nil"])
             /\ UNCHANGED merges
        ELSE \E response \in { 0, StatusCreated, StatusNoContent, StatusConflict } :
               /\ merges' = Append(merges, [Base |-> latestBranch.Ref, Head |-> BranchMaster,
                                            CommitMessage |-> message, StatusCode |-> response])
               /\ FFReturn(MergeOutcome(response, latestBranch,
                                        [SHA |-> "merge-sha", Message |-> message]))
  /\ UNCHANGED << tagsDest, branchesDest, force, dryRun, latestBranch, latestTag, cmpStatus, yes >>
  /\ UNCHANGED varsNotes
  /\ UnchangedOthers

NextFF == FFGetRefs \/ FFSelect \/ FFCompare \/ FFPrompt \/ FFMerge

SpecFF == InitFF /\ [][NextFF]_vars

(***************************************************************************)
(* The helpers of pkg/utils.go, each called once on drawn arguments.       *)
(***************************************************************************)

MaxListLen == 3

MaxBranchLen == 2

\* "vMAJOR.MINOR", a tag without its .PATCH component
ShortTagName(prefix, major, minor) == prefix \o << "v" >> \o Itoa(major) \o << "." >> \o Itoa(minor)

\* the newest MAJOR.MINOR with three patch releases, a pre-release and the
\* short form, an older minor, version 0.0.0 and a non-SemVer name
UTagNames ==
  { TagName(RefsTags, MaxMajor, MaxMinor, 0, << >>),
    TagName(RefsTags, MaxMajor, MaxMinor, MaxPatch, << >>),
    TagName(RefsTags, MaxMajor, MaxMinor, MaxPatch - 1, << >>),
    TagName(RefsTags, MaxMajor, MaxMinor, 0, Label(Rc, 1)),
    ShortTagName(RefsTags, MaxMajor, MaxMinor),
    TagName(RefsTags, MaxMajor, MaxMinor - 1, 0, << >>),
    TagName(RefsTags, 0, 0, 0, << >>),
    NonSemVerName }

UTagLists == UNION { { RefList(names) : names \in [1..n -> UTagNames] } : n \in 0..MaxListLen }

\* the branch versions FindLatestTag is asked about
UBranchVersions ==
  { ParseSemantic(Itoa(MaxMajor) \o << "." >> \o Itoa(MaxMinor) \o << ".", "0" >>),
    ParseSemantic(Itoa(MaxMajor) \o << "." >> \o Itoa(MaxMinor - 1) \o << ".", "0" >>),
    ParseSemantic(<< "0", ".", "0", ".", "0" >>) }

\* minimum versions: a final release, a patch release, a pre-release and an
\* older minor
UMinVersions ==
  { TagToVersion(TagName(<< >>, MaxMajor, MaxMinor, 0, << >>)),
    TagToVersion(TagName(<< >>, MaxMajor, MaxMinor, MaxPatch, << >>)),
    TagToVersion(TagName(<< >>, MaxMajor, MaxMinor, 0, Label(Alpha, 1))),
    TagToVersion(TagName(<< >>, MaxMajor, MaxMinor - 1, 0, << >>)) }

\* the other branch prefix that is configured
PrefixV == << "v" >>

UPrefixes == { PrefixBranch, PrefixV }

\* release branches of three versions and of 0.0, master, two branches named
\* by a bare version, and a release branch without a version
UBranchNames ==
  { BranchName(PrefixBranch, MaxMajor, MaxMinor),
    BranchName(PrefixBranch, MaxMajor, MaxMinor - 1),
    BranchName(PrefixBranch, MaxMajor + 1, 0),
    BranchName(PrefixBranch, 0, 0),
    RefsHeads \o BranchMaster,
    BranchName(<< >>, MaxMajor, MaxMinor),
    BranchName(PrefixV, MaxMajor, MaxMinor),
    RefsHeads \o PrefixBranch \o << "f", "o", "o" >> }

UBranchLists == UNION { { RefList(names) : names \in [1..n -> UBranchNames] } : n \in 0..MaxBranchLen }

\* the names the two parsers are given: the tags and branches above, bare
\* forms of them, and a version of one component
UParseNames ==
  UTagNames \cup UBranchNames
    \cup { ShortTagName(<< >>, MaxMajor, MaxMinor),
           TagName(<< >>, MaxMajor, MaxMinor, MaxPatch, << >>),
           RefsTags \o << "v" >> \o Itoa(MaxMajor),
           PrefixBranch \o Itoa(MaxMajor) \o << "." >> \o Itoa(MaxMinor) }

\* the tags FindBranchHEADForTag is asked about
UHeadTagNames ==
  { TagName(RefsTags, MaxMajor, MaxMinor, MaxPatch, << >>),
    TagName(RefsTags, MaxMajor, MaxMinor, 0, Label(Rc, 1)),
    TagName(RefsTags, MaxMajor + 1, MaxMinor, 0, << >>),
    ShortTagName(RefsTags, MaxMajor, MaxMinor),
    NonSemVerName }

\* the names of FindNewRefs' two lists
UDiffNames == { << "a" >>, << "b" >>, << "c" >> }

\* a list of references whose SHAs start after base
RefListFrom(names, base) == [ i \in 1..Len(names) |-> [Ref |-> names[i], SHA |-> base + i] ]

USrcLists == UNION { { RefList(names) : names \in [1..n -> UDiffNames] } : n \in 0..MaxListLen }

\* the destination holds the names under the same SHAs or under other ones
UDestLists ==
  UNION { { RefListFrom(names, base) : names \in [1..n -> UDiffNames], base \in { 0, MaxListLen + 1 } } :
          n \in 0..MaxBranchLen }

\* the SHA of master that FindBranchHEADForTag is given
MasterSHA == 0

UtilArgs(op, list, list2, r, ver, prefix) ==
  /\ uOp = op
  /\ uRefs = list
  /\ uRefs2 = list2
  /\ uRef = r
  /\ uVer = ver
  /\ uPrefix = prefix

InitUtils ==
  /\ \/ \E list \in UTagLists, ver \in UBranchVersions :
          UtilArgs("FindLatestTag", list, << >>, NilRef, ver, << >>)
     \/ \E list \in UBranchLists, prefix \in UPrefixes :
          UtilArgs("FindLatestBranch", list, << >>, NilRef, NoVersion, prefix)
     \/ \E list \in UTagLists, ver \in UMinVersions :
          UtilArgs("TrimTags", list, << >>, NilRef, ver, << >>)
     \/ \E list \in UBranchLists, ver \in UMinVersions, prefix \in UPrefixes :
          UtilArgs("TrimBranches", list, << >>, NilRef, ver, prefix)
     \/ \E name \in UParseNames :
          UtilArgs("TagRefToVersion", << >>, << >>, [Ref |-> name, SHA |-> 0], NoVersion, << >>)
     \/ \E name \in UParseNames, prefix \in UPrefixes :
          UtilArgs("BranchRefToVersion", << >>, << >>, [Ref |-> name, SHA |-> 0], NoVersion, prefix)
     \/ \E src \in USrcLists, dest \in UDestLists :
          UtilArgs("FindNewRefs", src, dest, NilRef, NoVersion, << >>)
     \/ \E name \in UHeadTagNames, list \in UBranchLists :
          UtilArgs("FindBranchHEADForTag", << >>, list, [Ref |-> name, SHA |-> 0], NoVersion, PrefixBranch)
  /\ uPc = "call"
  /\ uOut = NoUtilOut
  /\ IdleNotes /\ IdleFF /\ IdleLV /\ IdleSync /\ IdleRel

UtilReturn(out) ==
  /\ uOut' = out
  /\ uPc' = "done"
  /\ UNCHANGED << uOp, uRefs, uRefs2, uRef, uVer, uPrefix >>
  /\ UNCHANGED varsNotes
  /\ UNCHANGED varsFF
  /\ UNCHANGED varsLV
  /\ UNCHANGED varsSync
  /\ UNCHANGED varsRel

\* a (ref, error) result: the nil reference comes with the error
RefOrError(r) == [NoUtilOut EXCEPT !.ref = r, !.err = (r = NilRef)]

\* a (version, error) result
VersionOrError(v) == [NoUtilOut EXCEPT !.ver = v, !.err = v.err]

CallFindLatestTag ==
  /\ uPc = "call" /\ uOp = "FindLatestTag"
  /\ UtilReturn(RefOrError(FindLatestTag(uRefs, uVer)))

CallFindLatestBranch ==
  /\ uPc = "call" /\ uOp = "FindLatestBranch"
  /\ UtilReturn(RefOrError(FindLatestBranch(uRefs, uPrefix)))

CallTrimTags ==
  /\ uPc = "call" /\ uOp = "TrimTags"
  /\ UtilReturn([NoUtilOut EXCEPT !.refs = TrimTags(uRefs, uVer)])

CallTrimBranches ==
  /\ uPc = "call" /\ uOp = "TrimBranches"
  /\ UtilReturn([NoUtilOut EXCEPT !.refs = TrimBranches(uRefs, uVer, uPrefix)])

CallTagRefToVersion ==
  /\ uPc = "call" /\ uOp = "TagRefToVersion"
  /\ UtilReturn(VersionOrError(TagRefToVersion(uRef)))

CallBranchRefToVersion ==
  /\ uPc = "call" /\ uOp = "BranchRefToVersion"
  /\ UtilReturn(VersionOrError(BranchRefToVersion(uRef, uPrefix)))

CallFindNewRefs ==
  /\ uPc = "call" /\ uOp = "FindNewRefs"
  /\ UtilReturn([NoUtilOut EXCEPT !.refs = FindNewRefs(uRefs, uRefs2)])

CallFindBranchHEADForTag ==
  /\ uPc = "call" /\ uOp = "FindBranchHEADForTag"
  /\ UtilReturn([NoUtilOut EXCEPT !.sha = FindBranchHEADForTag(uRef, uPrefix, MasterSHA, uRefs2)])

NextUtils ==
  \/ CallFindLatestTag
  \/ CallFindLatestBranch
  \/ CallTrimTags
  \/ CallTrimBranches
  \/ CallTagRefToVersion
  \/ CallBranchRefToVersion
  \/ CallFindNewRefs
  \/ CallFindBranchHEADForTag

SpecUtils == InitUtils /\ [][NextUtils]_vars

(***************************************************************************)
(* k8s-repo-sync: process, with GitHubCreateNewBranches / NewTags.         *)
(***************************************************************************)

MaxSyncRefs == 2

MaxSyncDestTags == 1

\* GitHubCreateRef that sends the request in DRY-RUN mode too
GitHubCreateRefAlways(calls, name, sha, isDryRun) ==
  Append(calls, [Ref |-> name, SHA |-> sha, sent |-> TRUE])

\* GitHubCreateRef: in DRY-RUN mode the reference is built and no request sent
GitHubCreateRef(calls, name, sha, isDryRun) ==
  Append(calls, [Ref |-> name, SHA |-> sha, sent |-> ~isDryRun])

\* the lists of at most n different names of the pool (a repository holds a
\* name once)
NameLists(pool, n) ==
  UNION { { names \in [1..k -> pool] : \A i, j \in 1..k : names[i] = names[j] => i = j } : k \in 0..n }

SyncSrcTagNames ==
  { TagName(RefsTags, MaxMajor, MaxMinor, 0, << >>),
    TagName(RefsTags, MaxMajor, MaxMinor, MaxPatch, << >>),
    TagName(RefsTags, MaxMajor, MaxMinor - 1, 0, << >>),
    ShortTagName(RefsTags, MaxMajor, MaxMinor) }

SyncDestTagNames ==
  { TagName(RefsTags, MaxMajor, MaxMinor, 0, << >>),
    TagName(RefsTags, MaxMajor, MaxMinor - 1, 0, << >>) }

SyncSrcBranchNames == { BranchName(PrefixBranch, MaxMajor, MaxMinor), RefsHeads \o BranchMaster }

SyncDestBranchNames ==
  { RefsHeads \o BranchMaster, BranchName(PrefixBranch, MaxMajor, MaxMinor),
    BranchName(<< >>, MaxMajor, MaxMinor) }

\* the SHAs of the destination repository are not those of the source
DestSHABase == 10

\* sort.Slice(refs, refs[i].GetRef() < refs[j].GetRef()) on different names
RECURSIVE InsertRef(_, _)
InsertRef(r, sorted) ==
  IF sorted = << >> THEN << r >>
  ELSE IF StrLess(r.Ref, Head(sorted).Ref) THEN << r >> \o sorted
  ELSE << Head(sorted) >> \o InsertRef(r, Tail(sorted))

RECURSIVE SortRefs(_)
SortRefs(list) == IF list = << >> THEN << >> ELSE InsertRef(Head(list), SortRefs(Tail(list)))

\* a search for master that falls back to the first branch of the list
FindMasterSHAOrFirst(branches) ==
  IF \E i \in 1..Len(branches) : TrimPrefix(branches[i].Ref, RefsHeads) = BranchMaster
  THEN (CHOOSE r \in { branches[i] : i \in 1..Len(branches) } :
          TrimPrefix(r.Ref, RefsHeads) = BranchMaster).SHA
  ELSE IF branches = << >> THEN -1
  ELSE Head(branches).SHA

\* the loop of the write label that looks for master: -1 stands for ""
RECURSIVE FindMasterSHA(_)
FindMasterSHA(branches) ==
  IF branches = << >> THEN -1
  ELSE IF TrimPrefix(Head(branches).Ref, RefsHeads) = BranchMaster THEN Head(branches).SHA
  ELSE FindMasterSHA(Tail(branches))

\* the first element of dest with the name, NilRef when there is none
RECURSIVE FirstNamed(_, _)
FirstNamed(name, dest) ==
  IF dest = << >> THEN NilRef
  ELSE IF Head(dest).Ref = name THEN Head(dest)
  ELSE FirstNamed(name, Tail(dest))

\* the loops that update the new refs from the destination's list
UpdateNewRefs(new, dest) ==
  [ i \in 1..Len(new) |->
      IF FirstNamed(new[i].Ref, dest) = NilRef THEN new[i] ELSE FirstNamed(new[i].Ref, dest) ]

\* the references GitHubCreateNewBranches creates from the first k branches
RECURSIVE NewBranchRefs(_, _, _)
NewBranchRefs(branches, k, masterSHA) ==
  IF k = 0 THEN << >>
  ELSE Append(NewBranchRefs(branches, k - 1, masterSHA), [Ref |-> branches[k].Ref, SHA |-> masterSHA])

\* a GitHubCreateNewTags that leaves out the first tag
RECURSIVE NewTagRefsSkipFirst(_, _, _, _, _)
NewTagRefsSkipFirst(tags, k, prefix, masterSHA, branches) ==
  IF k <= 1 THEN << >>
  ELSE Append(NewTagRefsSkipFirst(tags, k - 1, prefix, masterSHA, branches),
              [Ref |-> tags[k].Ref, SHA |-> FindBranchHEADForTag(tags[k], prefix, masterSHA, branches)])

\* the references GitHubCreateNewTags creates from the first k tags
RECURSIVE NewTagRefs(_, _, _, _, _)
NewTagRefs(tags, k, prefix, masterSHA, branches) ==
  IF k = 0 THEN << >>
  ELSE Append(NewTagRefs(tags, k - 1, prefix, masterSHA, branches),
              [Ref |-> tags[k].Ref, SHA |-> FindBranchHEADForTag(tags[k], prefix, masterSHA, branches)])

\* the calls of GitHubCreateRef for a list of references
RECURSIVE CreateRefs(_, _, _)
CreateRefs(calls, list, isDryRun) ==
  IF list = << >> THEN calls
  ELSE CreateRefs(GitHubCreateRef(calls, Head(list).Ref, Head(list).SHA, isDryRun), Tail(list), isDryRun)

\* process returns (nil, err)
SyncError == [refs |-> << >>, err |-> TRUE]

\* the exit label: sort and return
SyncExit(tags, branches) == [refs |-> SortRefs(tags \o branches), err |-> FALSE]

InitSync ==
  /\ tagsSrc \in { RefList(names) : names \in NameLists(SyncSrcTagNames, MaxSyncRefs) }
  /\ branchesSrc \in { RefList(names) : names \in NameLists(SyncSrcBranchNames, MaxSyncRefs) }
  /\ tagsDest \in { RefListFrom(names, DestSHABase) : names \in NameLists(SyncDestTagNames, MaxSyncDestTags) }
  /\ branchesDest \in
       { RefListFrom(names, 2 * DestSHABase) : names \in NameLists(SyncDestBranchNames, MaxSyncRefs) }
  /\ minVersion = TagToVersion(TagName(<< >>, MaxMajor, MaxMinor, 0, << >>))
  /\ force \in BOOLEAN
  /\ dryRun \in BOOLEAN
  /\ newTags = << >>
  /\ newBranches = << >>
  /\ syncPc = "start"
  /\ syncOut = NoSyncOut
  /\ created = << >>
  /\ ffPc = "idle" /\ latestBranch = NilRef /\ latestTag = NilRef /\ ffOut = NoOut /\ merges = << >>
  /\ cmpStatus = "none" /\ yes = "none"
  /\ IdleNotes /\ IdleUtils /\ IdleLV /\ IdleRel

SyncReturn(out) ==
  /\ syncOut' = out
  /\ syncPc' = "done"

SyncUnchangedOthers ==
  /\ UNCHANGED << tagsSrc, branchesSrc, minVersion, force, dryRun >>
  /\ UNCHANGED varsFFOnly
  /\ UNCHANGED varsNotes
  /\ UNCHANGED varsUtils
  /\ UNCHANGED varsLV
  /\ UNCHANGED varsRel

\* the four list requests, the trimming and the search for new refs
SyncGetRefs ==
  /\ syncPc = "start"
  /\ \E failed \in BOOLEAN :
       IF failed
       THEN SyncReturn(SyncError) /\ UNCHANGED << newTags, newBranches >>
       ELSE LET tags == FindNewRefs(TrimTags(tagsSrc, minVersion), TrimTags(tagsDest, minVersion))
                branches == FindNewRefs(TrimBranches(branchesSrc, minVersion, PrefixBranch),
                                        TrimBranches(branchesDest, minVersion, PrefixBranch))
            IN /\ newTags' = tags
               /\ newBranches' = branches
               /\ IF Len(tags) = 0 /\ Len(branches) = 0
                  THEN SyncReturn([refs |-> tags, err |-> FALSE])
                  ELSE syncPc' = (IF force THEN "write" ELSE "prompt") /\ UNCHANGED syncOut
  /\ UNCHANGED << tagsDest, branchesDest, created, yes >>
  /\ SyncUnchangedOthers

\* ShowPrompt; on "no" process goes to the exit label
SyncPrompt ==
  /\ syncPc = "prompt"
  /\ \E answer \in { "error", "yes", "no" } :
       /\ yes' = answer
       /\ IF answer = "error" THEN SyncReturn(SyncError)
          ELSE IF answer = "yes" THEN syncPc' = "write" /\ UNCHANGED syncOut
          ELSE SyncReturn(SyncExit(newTags, newBranches))
  /\ UNCHANGED << tagsDest, branchesDest, newTags, newBranches, created >>
  /\ SyncUnchangedOthers

\* the write label up to the update of the new branches: the master SHA,
\* GitHubCreateNewBranches and the second request for the branches; k requests
\* succeed, then the next one fails, or all succeed and the list request may fail
SyncCreateBranches ==
  /\ syncPc = "write"
  /\ LET masterSHA == FindMasterSHA(branchesDest)
     IN IF masterSHA = -1
        THEN SyncReturn(SyncError) /\ UNCHANGED << branchesDest, newBranches, created >>
        ELSE IF dryRun
        THEN LET made == NewBranchRefs(newBranches, Len(newBranches), masterSHA)
             IN /\ created' = CreateRefs(created, made, TRUE)
                /\ branchesDest' = branchesDest \o made
                /\ newBranches' = UpdateNewRefs(newBranches, branchesDest \o made)
                /\ syncPc' = "tags" /\ UNCHANGED syncOut
        ELSE \E k \in 0..Len(newBranches), failed \in BOOLEAN :
               LET sent == NewBranchRefs(newBranches, IF k < Len(newBranches) THEN k + 1 ELSE k,
                                         masterSHA)
                   made == NewBranchRefs(newBranches, k, masterSHA)
               IN /\ k < Len(newBranches) => failed
                  /\ created' = CreateRefs(created, sent, FALSE)
                  /\ IF failed
                     THEN SyncReturn(SyncError) /\ UNCHANGED << branchesDest, newBranches >>
                     ELSE /\ branchesDest' = branchesDest \o made
                          /\ newBranches' = UpdateNewRefs(newBranches, branchesDest \o made)
                          /\ syncPc' = "tags" /\ UNCHANGED syncOut
  /\ UNCHANGED << tagsDest, newTags, yes >>
  /\ SyncUnchangedOthers

\* GitHubCreateNewTags, the second request for the tags, the update of the
\* new tags and the exit label
SyncCreateTags ==
  /\ syncPc = "tags"
  /\ LET masterSHA == FindMasterSHA(branchesDest)
     IN IF dryRun
        THEN LET made == NewTagRefs(newTags, Len(newTags), PrefixBranch, masterSHA, branchesDest)
             IN /\ created' = CreateRefs(created, made, TRUE)
                /\ tagsDest' = tagsDest \o made
                /\ newTags' = UpdateNewRefs(newTags, tagsDest \o made)
                /\ SyncReturn(SyncExit(UpdateNewRefs(newTags, tagsDest \o made), newBranches))
        ELSE \E k \in 0..Len(newTags), failed \in BOOLEAN :
               LET sent == NewTagRefs(newTags, IF k < Len(newTags) THEN k + 1 ELSE k,
                                      PrefixBranch, masterSHA, branchesDest)
                   made == NewTagRefs(newTags, k, PrefixBranch, masterSHA, branchesDest)
               IN /\ k < Len(newTags) => failed
                  /\ created' = CreateRefs(created, sent, FALSE)
                  /\ IF failed
                     THEN SyncReturn(SyncError) /\ UNCHANGED << tagsDest, newTags >>
                     ELSE /\ tagsDest' = tagsDest \o made
                          /\ newTags' = UpdateNewRefs(newTags, tagsDest \o made)
                          /\ SyncReturn(SyncExit(UpdateNewRefs(newTags, tagsDest \o made), newBranches))
  /\ UNCHANGED << branchesDest, newBranches, yes >>
  /\ SyncUnchangedOthers

NextSync == SyncGetRefs \/ SyncPrompt \/ SyncCreateBranches \/ SyncCreateTags

SpecSync == InitSync /\ [][NextSync]_vars

(***************************************************************************)
(* k8s-create-release: process, with GitHubGetCreateRelease and            *)
(* GitHubUploadReleaseAssets.                                              *)
(***************************************************************************)

MaxAssets == 2

\* the release notes: none, or a text
ReleaseBodies == { << >>, << "f", "o", "o" >> }

\* the tags a release is asked for: a final release and a pre-release
ReleaseTagNames ==
  { TagName(<< >>, MaxMajor, MaxMinor, 0, << >>), TagName(<< >>, MaxMajor, MaxMinor, 0, Label(Rc, 1)) }

\* the release GitHubGetCreateRelease builds for a tag that has none
NewRelease(tag, body) ==
  [TagName |-> tag, Name |-> tag, Body |-> body, Draft |-> FALSE,
   Prerelease |-> Len(ParseSemantic(tag).pre) > 0]

\* a release the repository holds already: only its tag name is compared
ExistingRelease(tag) == [NilRelease EXCEPT !.TagName = tag]

\* the CreateRelease request for a tag
ReleaseRequest(tag, body) ==
  [kind |-> "release", tag |-> tag, prerelease |-> Len(ParseSemantic(tag).pre) > 0, asset |-> 0,
   release |-> NewRelease(tag, body)]

\* the release in the response to a CreateRelease request: the five fields
\* of the request
CreatedRelease(request) == request.release

\* the UploadReleaseAsset request for the k-th new asset
AssetRequest(tag, k) ==
  [kind |-> "asset", tag |-> tag, prerelease |-> FALSE, asset |-> k, release |-> NilRelease]

\* what GitHubGetCreateRelease returns, and the requests it sent
ReleaseResult(rel, err, requests) == [release |-> rel, err |-> err, requests |-> requests]

\* the answers to GetReleaseByTag: status 200, status 404, another status
\* with an error, and an error without a response
LookupAnswers(exists) == (IF exists THEN { "ok" } ELSE { "notfound" }) \cup { "error", "transport" }

\* GitHubGetCreateRelease that leaves the body out of the DRY-RUN release
GitHubGetCreateReleaseNoBody(tag, body, isDryRun, tagFound, lookup, createFailed) ==
  IF ~tagFound THEN ReleaseResult(NilRelease, "error", << >>)
  ELSE IF lookup = "transport" THEN ReleaseResult(NilRelease, "panic", << >>)
  ELSE IF lookup = "ok" THEN ReleaseResult(ExistingRelease(tag), "nil", << >>)
  ELSE IF lookup = "error" THEN ReleaseResult(NilRelease, "error", << >>)
  ELSE IF ParseSemantic(tag).err THEN ReleaseResult(NilRelease, "error", << >>)
  ELSE IF isDryRun THEN ReleaseResult(NewRelease(tag, << >>), "nil", << >>)
  ELSE IF createFailed THEN ReleaseResult(NilRelease, "error", << ReleaseRequest(tag, body) >>)
  ELSE ReleaseResult(CreatedRelease(ReleaseRequest(tag, body)), "nil", << ReleaseRequest(tag, body) >>)

\* GitHubGetCreateRelease: the tag lookup, the release lookup (resp.StatusCode
\* is read before err is looked at, so an error without a response is a nil
\* dereference), the pre-release check, and the creation
GitHubGetCreateRelease(tag, body, isDryRun, tagFound, lookup, createFailed) ==
  IF ~tagFound THEN ReleaseResult(NilRelease, "error", << >>)
  ELSE IF lookup = "transport" THEN ReleaseResult(NilRelease, "panic", << >>)
  ELSE IF lookup = "ok" THEN ReleaseResult(ExistingRelease(tag), "nil", << >>)
  ELSE IF lookup = "error" THEN ReleaseResult(NilRelease, "error", << >>)
  ELSE IF ParseSemantic(tag).err THEN ReleaseResult(NilRelease, "error", << >>)
  ELSE IF isDryRun THEN ReleaseResult(NewRelease(tag, body), "nil", << >>)
  ELSE IF createFailed THEN ReleaseResult(NilRelease, "error", << ReleaseRequest(tag, body) >>)
  ELSE ReleaseResult(CreatedRelease(ReleaseRequest(tag, body)), "nil", << ReleaseRequest(tag, body) >>)

\* the upload requests for the first k new assets
RECURSIVE AssetRequests(_, _)
AssetRequests(tag, k) == IF k = 0 THEN << >> ELSE Append(AssetRequests(tag, k - 1), AssetRequest(tag, k))

InitRel ==
  /\ releaseTag \in ReleaseTagNames
  /\ tagExists \in BOOLEAN
  /\ releaseExists \in BOOLEAN
  /\ releaseAssets \in 0..MaxAssets
  /\ force \in BOOLEAN
  /\ dryRun \in BOOLEAN
  /\ relPc = "start"
  /\ relOut = FALSE
  /\ relWrites = << >>
  /\ bodyStr = << >>
  /\ release = NilRelease
  /\ relAnswers = NoAnswers
  /\ toolSHAs = NoSHAs
  /\ tagsDest = << >> /\ branchesDest = << >>
  /\ ffPc = "idle" /\ latestBranch = NilRef /\ latestTag = NilRef /\ ffOut = NoOut /\ merges = << >>
  /\ cmpStatus = "none" /\ yes = "none"
  /\ IdleNotes /\ IdleUtils /\ IdleLV /\ IdleSync

\* process returns err (TRUE) or nil (FALSE)
RelReturn(err) ==
  /\ relOut' = err
  /\ relPc' = "done"

RelUnchangedOthers ==
  /\ UNCHANGED << releaseTag, tagExists, releaseAssets, force, dryRun, yes, tagsDest, branchesDest,
                  toolSHAs >>
  /\ UNCHANGED varsFFOnly
  /\ UNCHANGED varsNotes
  /\ UNCHANGED varsUtils
  /\ UNCHANGED varsLV
  /\ UNCHANGED varsSync

\* the release notes: read from a path, generated by the tool, or skipped;
\* reading the destination and running the tool may fail
RelNotes ==
  /\ relPc = "start"
  /\ \E failed \in BOOLEAN, body \in ReleaseBodies :
       IF failed THEN RelReturn(TRUE) /\ UNCHANGED bodyStr
       ELSE /\ bodyStr' = body
            /\ relPc' = (IF force THEN "create" ELSE "promptCreate") /\ UNCHANGED relOut
  /\ UNCHANGED << releaseExists, relWrites, release, relAnswers >>
  /\ RelUnchangedOthers

\* the prompt about creating the release
RelPromptCreate ==
  /\ relPc = "promptCreate"
  /\ \E answer \in { "error", "yes", "no" } :
       IF answer = "error" THEN RelReturn(TRUE)
       ELSE IF answer = "yes" THEN relPc' = "create" /\ UNCHANGED relOut
       ELSE RelReturn(FALSE)
  /\ UNCHANGED << releaseExists, relWrites, bodyStr, release, relAnswers >>
  /\ RelUnchangedOthers

\* the createRelease label: GitHubGetCreateRelease and the build command
RelCreate ==
  /\ relPc = "create"
  /\ \E getFailed \in BOOLEAN, lookup \in LookupAnswers(releaseExists),
        createFailed \in BOOLEAN, buildFailed \in BOOLEAN :
       LET got == GitHubGetCreateRelease(releaseTag, bodyStr, dryRun, tagExists /\ ~getFailed,
                                         lookup, createFailed)
       IN /\ relWrites' = relWrites \o got.requests
          /\ releaseExists' = (releaseExists \/ (got.requests # << >> /\ got.err = "nil"))
          /\ release' = got.release
          /\ relAnswers' = [getFailed |-> getFailed, lookup |-> lookup, createFailed |-> createFailed]
          /\ IF got.err = "panic" THEN relPc' = "panic" /\ UNCHANGED relOut
             ELSE IF got.err = "error" THEN RelReturn(TRUE)
             ELSE IF buildFailed /\ ~dryRun THEN RelReturn(TRUE)
             ELSE relPc' = (IF force THEN "upload" ELSE "promptUpload") /\ UNCHANGED relOut
  /\ UNCHANGED bodyStr
  /\ RelUnchangedOthers

\* the prompt about uploading the assets
RelPromptUpload ==
  /\ relPc = "promptUpload"
  /\ \E answer \in { "error", "yes", "no" } :
       IF answer = "error" THEN RelReturn(TRUE)
       ELSE IF answer = "yes" THEN relPc' = "upload" /\ UNCHANGED relOut
       ELSE RelReturn(FALSE)
  /\ UNCHANGED << releaseExists, relWrites, bodyStr, release, relAnswers >>
  /\ RelUnchangedOthers

\* the uploadAssets label: GitHubUploadReleaseAssets; k uploads succeed, then
\* the next one fails, or all succeed
RelUpload ==
  /\ relPc = "upload"
  /\ IF releaseAssets = 0 \/ dryRun
     THEN RelReturn(FALSE) /\ UNCHANGED relWrites
     ELSE \E k \in 0..releaseAssets :
            /\ relWrites' = relWrites \o AssetRequests(releaseTag, IF k < releaseAssets THEN k + 1 ELSE k)
            /\ RelReturn(k < releaseAssets)
  /\ UNCHANGED << releaseExists, bodyStr, release, relAnswers >>
  /\ RelUnchangedOthers

NextRel == RelNotes \/ RelPromptCreate \/ RelCreate \/ RelPromptUpload \/ RelUpload

SpecRel == InitRel /\ [][NextRel]_vars

(***************************************************************************)
(* GitHubGetCreateRelease called once, as TestGitHubGetCreateRelease does.  *)
(***************************************************************************)

\* tags that are not SemVer: without PATCH, and a word
OddReleaseTagNames == { << "v" >> \o Itoa(MaxMajor) \o << "." >> \o Itoa(MaxMinor), << "f", "o", "o" >> }

InitGetCreate ==
  /\ releaseTag \in ReleaseTagNames \cup OddReleaseTagNames
  /\ tagExists \in BOOLEAN
  /\ releaseExists \in BOOLEAN
  /\ bodyStr \in ReleaseBodies
  /\ dryRun \in BOOLEAN
  /\ force = TRUE
  /\ releaseAssets = 0
  /\ relPc = "call"
  /\ relOut = FALSE
  /\ relWrites = << >>
  /\ release = NilRelease
  /\ relAnswers = NoAnswers
  /\ toolSHAs = NoSHAs
  /\ tagsDest = << >> /\ branchesDest = << >>
  /\ ffPc = "idle" /\ latestBranch = NilRef /\ latestTag = NilRef /\ ffOut = NoOut /\ merges = << >>
  /\ cmpStatus = "none" /\ yes = "none"
  /\ IdleNotes /\ IdleUtils /\ IdleLV /\ IdleSync

CallGitHubGetCreateRelease ==
  /\ relPc = "call"
  /\ \E getFailed \in BOOLEAN, lookup \in LookupAnswers(releaseExists), createFailed \in BOOLEAN :
       LET got == GitHubGetCreateRelease(releaseTag, bodyStr, dryRun, tagExists /\ ~getFailed,
                                         lookup, createFailed)
       IN /\ relWrites' = relWrites \o got.requests
          /\ releaseExists' = (releaseExists \/ (got.requests # << >> /\ got.err = "nil"))
          /\ release' = got.release
          /\ relAnswers' = [getFailed |-> getFailed, lookup |-> lookup, createFailed |-> createFailed]
          /\ relOut' = (got.err = "error")
          /\ relPc' = (IF got.err = "panic" THEN "panic" ELSE "done")
  /\ UNCHANGED bodyStr
  /\ RelUnchangedOthers

NextGetCreate == CallGitHubGetCreateRelease

SpecGetCreate == InitGetCreate /\ [][NextGetCreate]_vars

(***************************************************************************)
(* getReleaseNotesToolSHAs of k8s-create-release, called once.             *)
(***************************************************************************)

\* getReleaseNotesToolSHAs returns ("", "", err)
SHAsError(failed) == [start |-> -1, end |-> -1, err |-> "error", failed |-> failed]

\* getReleaseNotesToolSHAs that hands the bare tag name to
\* FindReleaseNotesSinceRef
getReleaseNotesToolSHAsBareTag(tag, tags, getRefFailed, getTagsFailed) ==
  LET r == FirstNamed(RefsTags \o tag, tags)
      endRef == FindReleaseNotesSinceRef([r EXCEPT !.Ref = TrimPrefix(r.Ref, RefsTags)], tags)
  IN IF getRefFailed THEN SHAsError(TRUE)
     ELSE IF r = NilRef THEN SHAsError(FALSE)
     ELSE IF getTagsFailed THEN SHAsError(TRUE)
     ELSE IF endRef.panic THEN [start |-> -1, end |-> -1, err |-> "panic", failed |-> FALSE]
     ELSE IF endRef.err THEN SHAsError(FALSE)
     ELSE [start |-> r.SHA, end |-> endRef.ref.SHA, err |-> "nil", failed |-> FALSE]

\* getReleaseNotesToolSHAs: GitHubGetRef of refs/tags/<tag>, GitHubGetTags,
\* FindReleaseNotesSinceRef on the reference as the repository returned it
getReleaseNotesToolSHAs(tag, tags, getRefFailed, getTagsFailed) ==
  LET r == FirstNamed(RefsTags \o tag, tags)
      endRef == FindReleaseNotesSinceRef(r, tags)
  IN IF getRefFailed THEN SHAsError(TRUE)
     ELSE IF r = NilRef THEN SHAsError(FALSE)
     ELSE IF getTagsFailed THEN SHAsError(TRUE)
     ELSE IF endRef.panic THEN [start |-> -1, end |-> -1, err |-> "panic", failed |-> FALSE]
     ELSE IF endRef.err THEN SHAsError(FALSE)
     ELSE [start |-> r.SHA, end |-> endRef.ref.SHA, err |-> "nil", failed |-> FALSE]

\* the release tags of the calls: a final release, its alpha.0 and a word
SHAsTagNames ==
  { TagName(<< >>, MaxMajor, MaxMinor, 0, << >>),
    TagName(<< >>, MaxMajor, MaxMinor, 0, Label(Alpha, 0)),
    << "f", "o", "o" >> }

\* the tags of the destination repository
SHAsDestTagNames ==
  { TagName(RefsTags, MaxMajor, MaxMinor, 0, << >>),
    TagName(RefsTags, MaxMajor, MaxMinor - 1, 0, << >>),
    TagName(RefsTags, MaxMajor, MaxMinor, 0, Label(Alpha, 0)),
    RefsTags \o << "f", "o", "o" >> }

InitSHAs ==
  /\ releaseTag \in SHAsTagNames
  /\ tagsDest \in { RefListFrom(names, DestSHABase) : names \in NameLists(SHAsDestTagNames, MaxRefs) }
  /\ branchesDest = << >>
  /\ tagExists = (\E i \in 1..Len(tagsDest) : tagsDest[i].Ref = RefsTags \o releaseTag)
  /\ releaseExists = FALSE
  /\ releaseAssets = 0
  /\ force = TRUE
  /\ dryRun \in BOOLEAN
  /\ relPc = "shas"
  /\ relOut = FALSE
  /\ relWrites = << >>
  /\ bodyStr = << >>
  /\ release = NilRelease
  /\ relAnswers = NoAnswers
  /\ toolSHAs = NoSHAs
  /\ ffPc = "idle" /\ latestBranch = NilRef /\ latestTag = NilRef /\ ffOut = NoOut /\ merges = << >>
  /\ cmpStatus = "none" /\ yes = "none"
  /\ IdleNotes /\ IdleUtils /\ IdleLV /\ IdleSync

CallGetReleaseNotesToolSHAs ==
  /\ relPc = "shas"
  /\ \E getRefFailed \in BOOLEAN, getTagsFailed \in BOOLEAN :
       toolSHAs' = getReleaseNotesToolSHAs(releaseTag, tagsDest, getRefFailed, getTagsFailed)
  /\ relPc' = "done"
  /\ UNCHANGED << releaseTag, tagExists, releaseExists, releaseAssets, force, dryRun, yes, tagsDest,
                  branchesDest, relOut, relWrites, bodyStr, release, relAnswers >>
  /\ UNCHANGED varsFFOnly
  /\ UNCHANGED varsNotes
  /\ UNCHANGED varsUtils
  /\ UNCHANGED varsLV
  /\ UNCHANGED varsSync

NextSHAs == CallGetReleaseNotesToolSHAs

SpecSHAs == InitSHAs /\ [][NextSHAs]_vars

(***************************************************************************)
(* The three tools that write to the destination repository.               *)
(***************************************************************************)

InitTools == InitFF \/ InitSync \/ InitRel

NextTools == NextFF \/ NextSync \/ NextRel

SpecTools == InitTools /\ [][NextTools]_vars

(***************************************************************************)
(* k8s-latest-version: process called once on the lines of stdin.          *)
(***************************************************************************)

MaxLines == 3

\* tags as git prints them: patch and pre-release tags of the newest minor,
\* an older minor, a tag without "v" and PATCH, version 0.0.0 and a word
LVLineNames ==
  { TagName(<< >>, MaxMajor, MaxMinor, MaxPatch, << >>),
    TagName(<< >>, MaxMajor, MaxMinor, 0, Label(Rc, 1)),
    TagName(<< >>, MaxMajor, MaxMinor - 1, 0, << >>),
    Itoa(MaxMajor) \o << "." >> \o Itoa(MaxMinor),
    TagName(<< >>, 0, 0, 0, << >>),
    << "f", "o", "o" >> }

\* the values of -branch: none, three release branches, a release branch
\* without a version, a branch that lacks the prefix, and a bare version
LVBranchNames ==
  { << >>,
    PrefixBranch \o Itoa(MaxMajor) \o << "." >> \o Itoa(MaxMinor),
    PrefixBranch \o Itoa(MaxMajor) \o << "." >> \o Itoa(MaxMinor - 1),
    PrefixBranch \o << "0", ".", "0" >>,
    PrefixBranch \o << "f", "o", "o" >>,
    << "f", "o", "o", "-", "b", "a", "r" >>,
    Itoa(MaxMajor) \o << "." >> \o Itoa(MaxMinor) }

InitLV ==
  /\ lvLines \in UNION { [1..n -> LVLineNames] : n \in 0..MaxLines }
  /\ lvBranch \in LVBranchNames
  /\ lvPc = "call"
  /\ lvOut = LineResult(<< >>)
  /\ IdleNotes /\ IdleFF /\ IdleUtils /\ IdleSync /\ IdleRel

CallLatestVersionProcess ==
  /\ lvPc = "call"
  /\ lvOut' = LatestVersionProcess(lvLines, lvBranch, PrefixBranch)
  /\ lvPc' = "done"
  /\ UNCHANGED << lvLines, lvBranch >>
  /\ UNCHANGED varsNotes
  /\ UNCHANGED varsFF
  /\ UNCHANGED varsUtils
  /\ UNCHANGED varsSync
  /\ UNCHANGED varsRel

NextLV == CallLatestVersionProcess

SpecLV == InitLV /\ [][NextLV]_vars

(***************************************************************************)
(* Properties of FindReleaseNotesSinceRef (checked under SpecNotes).       *)
(***************************************************************************)

\* the version the target tag names, with or without refs/tags/
TargetV == TagToVersion(ref.Ref)

\* the label of the target is absent or of the form stage.n
TargetWellFormed == ~TargetV.err /\ (TargetV.pre = << >> \/ Len(Split(TargetV.pre, ".")) = 2)

\* the target is named by the bare tag, the name the function can parse
BareTarget == ~HasPrefix(ref.Ref, RefsTags)

ListV(i) == TagToVersion(refs[i].Ref)

\* the positions of the list that hold the final release major.minor.patch
FinalAt(major, minor, patch) ==
  { i \in 1..Len(refs) :
      /\ ~ListV(i).err
      /\ ListV(i).major = major /\ ListV(i).minor = minor /\ ListV(i).patch = patch
      /\ ListV(i).pre = << >> }

\* the positions that hold a tag of the given major above major.0.0
AboveMajorZero(major) ==
  { i \in 1..Len(refs) :
      ~ListV(i).err /\ ListV(i).major = major /\ (ListV(i).minor > 0 \/ ListV(i).patch > 0) }

\* the call returned the list element at one of the given positions, without error
ReturnedAt(positions) == \E i \in positions : notes = Returned(refs[i])

\* the call returned the target itself, without error
ReturnedTarget == notes = Returned(ref)

\* the selection of a MINOR release X.Y.0 with Y >= 1
PreviousMinorSelected ==
  IF FinalAt(TargetV.major, TargetV.minor - 1, 0) # { }
  THEN ReturnedAt(FinalAt(TargetV.major, TargetV.minor - 1, 0))
  ELSE ReturnedTarget

\* the selection of a MAJOR release X.0.0 with X >= 1
PreviousMajorSelected ==
  IF AboveMajorZero(TargetV.major - 1) # { }
  THEN \E i \in AboveMajorZero(TargetV.major - 1) :
         /\ notes = Returned(refs[i])
         /\ \A j \in AboveMajorZero(TargetV.major - 1) : ListV(j).minor <= ListV(i).minor
  ELSE ReturnedTarget

\* C1: a target named refs/tags/<semver>, as GitHub names it, is accepted:
\* the call returns without error, and for target refs/tags/vX.Y.0 and the
\* list (non-SemVer ref, refs/tags/vX.(Y-1).0) it returns the second element.
C1_RefsTagsTargetAccepted ==
  (notesPc = "done" /\ ~BareTarget /\ TargetWellFormed)
    => /\ ~notes.err
       /\ (/\ ref.Ref = TagName(RefsTags, MaxMajor, MaxMinor, 0, << >>)
           /\ refs = RefList(<< NonSemVerName, TagName(RefsTags, MaxMajor, MaxMinor - 1, 0, << >>) >>))
            => notes = Returned(refs[2])

\* C2: for a target X.Y.0 without label and Y >= 1 the call returns a tag of
\* the list with version X.(Y-1).0 when there is one, else the target itself.
C2_PreviousMinor ==
  (notesPc = "done" /\ ~TargetV.err /\ TargetV.pre = << >> /\ TargetV.patch = 0 /\ TargetV.minor >= 1)
    => PreviousMinorSelected

\* C3: for a target X.0.0 without label and X >= 1 the call returns the tag of
\* major X-1 with the largest minor, and the target itself when the list has
\* no tag of major X-1 above (X-1).0.0.
C3_MajorRollover ==
  (notesPc = "done" /\ ~TargetV.err /\ TargetV.pre = << >> /\ TargetV.patch = 0
     /\ TargetV.minor = 0 /\ TargetV.major >= 1)
    => PreviousMajorSelected

\* C4: for a target X.Y.Z without label and Z >= 1 the call returns the tag
\* with version X.Y.(Z-1) when the list has one, else the target itself.
C4_PreviousPatch ==
  (notesPc = "done" /\ ~TargetV.err /\ TargetV.pre = << >> /\ TargetV.patch >= 1)
    => IF FinalAt(TargetV.major, TargetV.minor, TargetV.patch - 1) # { }
       THEN ReturnedAt(FinalAt(TargetV.major, TargetV.minor, TargetV.patch - 1))
       ELSE ReturnedTarget

\* C5: for a target X.Y.Z-alpha.0 the call returns the target itself, without
\* error, whatever the list holds.
C5_AlphaZero ==
  (notesPc = "done" /\ ~TargetV.err /\ TargetV.pre = Label(Alpha, 0)) => ReturnedTarget

\* the result of the call for the final release of the target's X.Y.0
FinalCall ==
  FindReleaseNotesSinceRef(
    [Ref |-> (IF BareTarget THEN << >> ELSE RefsTags)
               \o << "v" >> \o VersionString(WithPatch([TargetV EXCEPT !.pre = << >>], 0)),
     SHA |-> 0], refs)

\* C6: for a target X.Y.0-alpha.1 the call selects what it selects for the
\* final X.Y.0: the previous minor's .0 release when Y >= 1, the newest tag of
\* the previous major when Y = 0, the target itself when the final target
\* would fall back to itself; never the X.Y.0-alpha.0 tag.
C6_AlphaOneLikeFinal ==
  (notesPc = "done" /\ ~TargetV.err /\ TargetV.pre = Label(Alpha, 1))
    => /\ ~notes.err /\ ~notes.panic
       /\ IF FinalCall.ref.SHA = 0 THEN ReturnedTarget ELSE notes = FinalCall
       /\ IF TargetV.minor >= 1 THEN PreviousMinorSelected
          ELSE IF TargetV.major >= 1 THEN PreviousMajorSelected
          ELSE ReturnedTarget

\* the positions that hold a smaller tag of the target's major.minor
SmallerInCycle ==
  { i \in 1..Len(refs) :
      /\ ~ListV(i).err
      /\ ListV(i).major = TargetV.major /\ ListV(i).minor = TargetV.minor
      /\ LessThan(ListV(i), TargetV) }

\* the target carries a label stage.n other than alpha.0 and alpha.1
OtherPreRelease ==
  /\ ~TargetV.err /\ TargetV.pre # << >> /\ Len(Split(TargetV.pre, ".")) = 2
  /\ TargetV.pre # Label(Alpha, 0) /\ TargetV.pre # Label(Alpha, 1)

\* C7: for a pre-release target other than alpha.0 and alpha.1, named by the
\* bare tag, the call returns the largest smaller tag of the same major.minor,
\* and the target itself when the list holds no smaller tag of that
\* major.minor, even if it holds tags of an older minor.
C7_PreviousPreReleaseInCycle ==
  (notesPc = "done" /\ BareTarget /\ OtherPreRelease)
    => IF SmallerInCycle # { }
       THEN \E i \in SmallerInCycle :
              /\ notes = Returned(refs[i])
              /\ \A j \in SmallerInCycle : ~LessThan(ListV(i), ListV(j))
       ELSE ReturnedTarget

\* C8: a target that parses as a semantic version and whose label does not
\* split into exactly two components makes the call return an error: no
\* panic, and no selection by the first two components.
C8_MalformedLabelIsError ==
  (notesPc = "done" /\ ~SinceRefVersion(ref).err /\ SinceRefVersion(ref).pre # << >>
     /\ Len(Split(SinceRefVersion(ref).pre, ".")) # 2)
    => notes.err /\ ~notes.panic

\* C9: for a target that is a valid semantic version (label absent or of the
\* form stage.n) the call returns without error an element of the list or the
\* target itself, and the target itself for version 0.0.0.
C9_NeverFailsOnSemVerTarget ==
  (notesPc = "done" /\ TargetWellFormed)
    => /\ ~notes.err /\ ~notes.panic
       /\ ReturnedTarget \/ ReturnedAt(1..Len(refs))
       /\ (TargetV.major = 0 /\ TargetV.minor = 0 /\ TargetV.patch = 0 /\ TargetV.pre = << >>)
            => ReturnedTarget

\* What holds of the selection once the target is named by the bare tag.
BareFinalSelection ==
  (notesPc = "done" /\ BareTarget) => (C2_PreviousMinor /\ C3_MajorRollover /\ C4_PreviousPatch)

BarePreReleaseSelection ==
  (notesPc = "done" /\ BareTarget) => (C5_AlphaZero /\ C6_AlphaOneLikeFinal /\ C9_NeverFailsOnSemVerTarget)

(***************************************************************************)
(* Properties of k8s-repo-ff (checked under SpecFF).                       *)
(***************************************************************************)

\* the order of the release train: alpha < beta < rc, then the number
StageRank(stage) == IF stage = Alpha THEN 1 ELSE IF stage = Beta THEN 2 ELSE 3

TrainLess(a, b) ==
  \/ StageRank(a[1]) < StageRank(b[1])
  \/ StageRank(a[1]) = StageRank(b[1]) /\ a[2] < b[2]

\* beta.0 <= label < rc.1
TrainInWindow(l) == ~TrainLess(l, << Beta, 0 >>) /\ TrainLess(l, << Rc, 1 >>)

\* process returned (nil, nil, fastForwardWindowError)
WindowRejected == ffPc = "done" /\ ffOut = FFError("fastForwardWindowError")

\* C10: once the latest tag T of the latest branch M.N is found, process
\* returns a fastForwardWindowError (with nil branch and commit) exactly when
\* T is outside M.N.0-beta.0 <= T < M.N.0-rc.1: beta.0 and rc.0 pass, alpha.3,
\* rc.1 and the final M.N.0 are rejected.
C10_FastForwardWindow ==
  (ffPc \notin { "start", "select" } /\ latestTag # NilRef)
    => \A minor \in { MaxMinor - 1, MaxMinor } :
         /\ \A l \in DestLabels :
              latestTag.Ref = TagName(RefsTags, MaxMajor, minor, 0, Label(l[1], l[2]))
                => (WindowRejected <=> ~TrainInWindow(l))
         /\ latestTag.Ref = TagName(RefsTags, MaxMajor, minor, 0, << >>) => WindowRejected

\* a run in which the latest tag is M.N.0-rc.1 and process rejected it
C10_Witness ==
  /\ WindowRejected
  /\ latestBranch.Ref = BranchName(PrefixBranch, MaxMajor, MaxMinor)
  /\ latestTag.Ref = TagName(RefsTags, MaxMajor, MaxMinor, 0, Label(Rc, 1))

(***************************************************************************)
(* Properties of the helpers of pkg/utils.go (checked under SpecUtils).    *)
(***************************************************************************)

\* the helper op has returned
Called(op) == uPc = "done" /\ uOp = op

UTagV(i) == TagRefToVersion(uRefs[i])

UBranchV(i) == BranchRefToVersion(uRefs[i], uPrefix)

\* the positions of the parseable tags of the branch's MAJOR.MINOR
TagsOfBranch ==
  { i \in 1..Len(uRefs) : ~UTagV(i).err /\ UTagV(i).major = uVer.major /\ UTagV(i).minor = uVer.minor }

\* the positions of the refs that parse as <prefix>MAJOR.MINOR
VersionedBranches == { i \in 1..Len(uRefs) : ~UBranchV(i).err }

\* the call returned, without error, a tag of the positions given that none
\* of them exceeds
ReturnedLatestTag(positions) ==
  /\ ~uOut.err
  /\ \E i \in positions :
       /\ uOut.ref = uRefs[i]
       /\ \A j \in positions : ~LessThan(UTagV(i), UTagV(j))

ReturnedLatestBranch(positions) ==
  /\ ~uOut.err
  /\ \E i \in positions :
       /\ uOut.ref = uRefs[i]
       /\ \A j \in positions : ~LessThan(UBranchV(i), UBranchV(j))

\* C11: FindLatestTag returns a tag of the branch's MAJOR.MINOR that no
\* parseable tag of that MAJOR.MINOR exceeds in SemVer order, and an error
\* exactly when the list holds no parseable tag of that MAJOR.MINOR; for the
\* tags X.Y.0, X.Y.P, X.Y.(P-1) and branch X.Y it returns X.Y.P.
C11_LatestTagOfBranch ==
  Called("FindLatestTag")
    => /\ IF TagsOfBranch = { } THEN uOut.err ELSE ReturnedLatestTag(TagsOfBranch)
       /\ (/\ uRefs = RefList(<< TagName(RefsTags, MaxMajor, MaxMinor, 0, << >>),
                                 TagName(RefsTags, MaxMajor, MaxMinor, MaxPatch, << >>),
                                 TagName(RefsTags, MaxMajor, MaxMinor, MaxPatch - 1, << >>) >>)
           /\ uVer.major = MaxMajor /\ uVer.minor = MaxMinor)
            => uOut.ref = uRefs[2]

\* What FindLatestTag does: the same, among the tags above version 0.0.0.
LatestTagAboveZero ==
  Called("FindLatestTag")
    => LET above == { i \in TagsOfBranch : LessThan(VersionZero, UTagV(i)) }
       IN IF above = { } THEN uOut.err /\ uOut.ref = NilRef ELSE ReturnedLatestTag(above)

\* C12: FindLatestBranch returns the ref with the largest version among the
\* refs that parse as <prefix>MAJOR.MINOR, and an error exactly when no ref
\* of the list parses so: a list whose only versioned branch is release-0.0
\* yields that branch.
C12_LatestBranch ==
  Called("FindLatestBranch")
    => IF VersionedBranches = { } THEN uOut.err ELSE ReturnedLatestBranch(VersionedBranches)

\* What FindLatestBranch does: the same, among the branches above 0.0.
LatestBranchAboveZero ==
  Called("FindLatestBranch")
    => LET above == { i \in VersionedBranches : LessThan(VersionZero, UBranchV(i)) }
       IN IF above = { } THEN uOut.err /\ uOut.ref = NilRef ELSE ReturnedLatestBranch(above)

\* the version major.minor.0
MinorVersion(major, minor) ==
  [err |-> FALSE, major |-> major, minor |-> minor, patch |-> 0, pre |-> << >>, build |-> << >>]

\* the tag parses and is not below minV
KeptTag(r, minV) == ~TagRefToVersion(r).err /\ AtLeast(TagRefToVersion(r), minV)

\* C13: TrimTags returns, in input order, exactly the refs that parse as a
\* semantic version and are not below minV: never more refs than it was
\* given, never a ref below minV, never a pre-release of minV's own version,
\* and no failure when a ref does not parse.
C13_TrimTagsExact ==
  Called("TrimTags")
    => /\ ~uOut.err
       /\ uOut.refs = SelectSeq(uRefs, LAMBDA r : KeptTag(r, uVer))
       /\ Len(uOut.refs) <= Len(uRefs)
       /\ \A i \in 1..Len(uOut.refs) : ~LessThan(TagRefToVersion(uOut.refs[i]), uVer)
       /\ \A i \in 1..Len(uOut.refs) :
            ~(/\ uVer.pre = << >>
              /\ TagRefToVersion(uOut.refs[i]).pre # << >>
              /\ [TagRefToVersion(uOut.refs[i]) EXCEPT !.pre = << >>] = uVer)

\* a call that dropped an unparsable ref and a pre-release of minV's version
\* and kept a later tag
C13_Witness ==
  /\ Called("TrimTags")
  /\ uVer = TagToVersion(TagName(<< >>, MaxMajor, MaxMinor, 0, << >>))
  /\ uRefs = RefList(<< NonSemVerName,
                        TagName(RefsTags, MaxMajor, MaxMinor, 0, Label(Rc, 1)),
                        TagName(RefsTags, MaxMajor, MaxMinor, MaxPatch, << >>) >>)
  /\ uOut.refs = << uRefs[3] >>

\* the branch parses as <prefix>MAJOR.MINOR and its pair is not below minV's
KeptBranch(r, minV, prefix) ==
  LET v == BranchRefToVersion(r, prefix)
  IN /\ ~v.err
     /\ v.major > minV.major \/ (v.major = minV.major /\ v.minor >= minV.minor)

\* C14: TrimBranches returns, in input order, exactly the refs that parse as
\* <prefix>MAJOR.MINOR and whose (MAJOR, MINOR) is lexicographically at least
\* minV's; a minV of the same MAJOR.MINOR with another patch or pre-release
\* part keeps the same branches.
C14_TrimBranchesByMinor ==
  Called("TrimBranches")
    => /\ ~uOut.err
       /\ uOut.refs = SelectSeq(uRefs, LAMBDA r : KeptBranch(r, uVer, uPrefix))
       /\ \A other \in UMinVersions :
            (other.major = uVer.major /\ other.minor = uVer.minor)
              => uOut.refs = SelectSeq(uRefs, LAMBDA r : KeptBranch(r, other, uPrefix))

\* a call with a patch release as minV that kept the branch of minV's own
\* MAJOR.MINOR and dropped an older one
C14_Witness ==
  /\ Called("TrimBranches")
  /\ uPrefix = PrefixBranch
  /\ uVer = TagToVersion(TagName(<< >>, MaxMajor, MaxMinor, MaxPatch, << >>))
  /\ uRefs = RefList(<< BranchName(PrefixBranch, MaxMajor, MaxMinor - 1),
                        BranchName(PrefixBranch, MaxMajor, MaxMinor) >>)
  /\ uOut.refs = << uRefs[2] >>

\* the names that are no semantic version, with or without prefix
NotSemVerNames ==
  { NonSemVerName, RefsHeads \o BranchMaster, RefsHeads \o PrefixBranch \o << "f", "o", "o" >>,
    RefsTags \o << "v" >> \o Itoa(MaxMajor) }

\* C15: refs/tags/vX.Y parses to X.Y.0 and refs/heads/<prefix>X.Y parses to
\* X.Y.0; BranchRefToVersion returns an error for every branch whose name
\* after refs/heads/ does not start with the prefix (master included), and
\* both parsers return an error, and nothing else, for a name that is no
\* semantic version.
C15_ParsersTolerateMissingPatch ==
  /\ Called("TagRefToVersion")
       => /\ \A major \in 0..(MaxMajor + 1), minor \in 0..(MaxMinor + 1) :
               uRef.Ref \in { ShortTagName(RefsTags, major, minor), ShortTagName(<< >>, major, minor) }
                 => uOut.ver = MinorVersion(major, minor) /\ ~uOut.err
          /\ uRef.Ref \in NotSemVerNames => uOut.err
          /\ uOut.err <=> uOut.ver = NoVersion
  /\ Called("BranchRefToVersion")
       => /\ \A major \in 0..(MaxMajor + 1), minor \in 0..(MaxMinor + 1) :
               uRef.Ref \in { BranchName(uPrefix, major, minor),
                              uPrefix \o Itoa(major) \o << "." >> \o Itoa(minor) }
                 => uOut.ver = MinorVersion(major, minor) /\ ~uOut.err
          /\ ~HasPrefix(TrimPrefix(uRef.Ref, RefsHeads), uPrefix) => uOut.err
          /\ (uPrefix = PrefixBranch /\ uRef.Ref = RefsHeads \o BranchMaster) => uOut.err
          /\ uRef.Ref \in NotSemVerNames => uOut.err
          /\ uOut.err <=> uOut.ver = NoVersion

\* a branch named by a bare version was refused under the prefix release-
C15_Witness ==
  /\ Called("BranchRefToVersion")
  /\ uPrefix = PrefixBranch
  /\ uRef.Ref = BranchName(<< >>, MaxMajor, MaxMinor)
  /\ uOut.err

BranchesOfTag ==
  { i \in 1..Len(uRefs2) :
      /\ TrimPrefix(uRefs2[i].Ref, RefsHeads) # BranchMaster
      /\ ~BranchRefToVersion(uRefs2[i], uPrefix).err
      /\ ~TagRefToVersion(uRef).err
      /\ BranchRefToVersion(uRefs2[i], uPrefix).major = TagRefToVersion(uRef).major
      /\ BranchRefToVersion(uRefs2[i], uPrefix).minor = TagRefToVersion(uRef).minor }

\* C17: FindBranchHEADForTag returns the SHA of the first branch, in input
\* order, that is not master, parses as a versioned branch and has the
\* MAJOR.MINOR of the tag, and the master SHA it was given when there is no
\* such branch.
C17_BranchHEADForTag ==
  Called("FindBranchHEADForTag")
    => IF BranchesOfTag = { } THEN uOut.sha = MasterSHA
       ELSE \E i \in BranchesOfTag :
              /\ uOut.sha = uRefs2[i].SHA
              /\ \A j \in BranchesOfTag : i <= j

\* What FindBranchHEADForTag does for a tag with all three components and
\* branches that carry the prefix or no version at all.
BranchHEADForPrefixedBranches ==
  (/\ Called("FindBranchHEADForTag")
   /\ HEADTagVersion(uRef).err = TagRefToVersion(uRef).err
   /\ \A i \in 1..Len(uRefs2) :
        HEADBranchVersion(uRefs2[i], uPrefix).err = BranchRefToVersion(uRefs2[i], uPrefix).err)
    => C17_BranchHEADForTag

(***************************************************************************)
(* Properties of k8s-repo-sync (checked under SpecSync).                   *)
(***************************************************************************)

\* process returned a list of references and no error
SyncReturned == syncPc = "done" /\ ~syncOut.err

\* GitHubCreateRef was called for the name: the reference was written, or in
\* DRY-RUN mode would have been
WrittenInThisRun(name) ==
  \E j \in 1..Len(created) : created[j].Ref = name /\ (created[j].sent \/ dryRun)

\* C19: every reference process returns was written to the destination in
\* this run (in DRY-RUN mode: would have been written); when the prompt is
\* answered no and nothing is written, the returned list is empty.
C19_OutputOnlyWrittenRefs ==
  SyncReturned => \A i \in 1..Len(syncOut.refs) : WrittenInThisRun(syncOut.refs[i].Ref)

\* What process does: once it reached the write label the claim holds, with
\* the SHA the reference was created from.
OutputAfterWrite ==
  (SyncReturned /\ created # << >>)
    => /\ Len(syncOut.refs) = Len(created)
       /\ \A i \in 1..Len(syncOut.refs) :
            \E j \in 1..Len(created) :
              /\ created[j].Ref = syncOut.refs[i].Ref
              /\ created[j].SHA = syncOut.refs[i].SHA
              /\ created[j].sent = ~dryRun

(***************************************************************************)
(* Properties of the three writing tools (checked under SpecTools).        *)
(***************************************************************************)

LineV(i) == TagToVersion(lvLines[i])

\* the version of the branch named by -branch, the prefix being required
LVBranchV == BranchRefToVersion([Ref |-> lvBranch, SHA |-> 0], PrefixBranch)

\* the positions of the lines that parse as SemVer and, when -branch is
\* given, have the branch's MAJOR.MINOR
QualifyingLines ==
  { i \in 1..Len(lvLines) :
      /\ ~LineV(i).err
      /\ lvBranch # << >> => (LineV(i).major = LVBranchV.major /\ LineV(i).minor = LVBranchV.minor) }

\* process printed, unchanged, a line of the positions given that none of
\* them exceeds
PrintedLatestLine(positions) ==
  /\ ~lvOut.err
  /\ \E i \in positions :
       /\ lvOut.line = lvLines[i]
       /\ \A j \in positions : ~LessThan(LineV(i), LineV(j))

\* C20: k8s-latest-version prints, unchanged, the line with the largest
\* version among the lines that parse as SemVer (a missing "v" or PATCH is
\* tolerated) and, when -branch is given, have that branch's MAJOR.MINOR; it
\* returns an error when the branch lacks the prefix or carries no version,
\* and when no line qualifies.
C20_LatestVersionLine ==
  lvPc = "done"
    => IF lvBranch # << >> /\ LVBranchV.err THEN lvOut.err
       ELSE IF QualifyingLines = { } THEN lvOut.err
       ELSE PrintedLatestLine(QualifyingLines)

\* What process does: the same, among the lines above version 0.0.0.
LatestLineAboveZero ==
  lvPc = "done"
    => LET above == { i \in QualifyingLines : LessThan(VersionZero, LineV(i)) }
       IN IF lvBranch # << >> /\ LVBranchV.err THEN lvOut.err
          ELSE IF above = { } THEN lvOut.err
          ELSE PrintedLatestLine(above)

(***************************************************************************)
(* Properties of GitHubGetCreateRelease (checked under SpecGetCreate).     *)
(***************************************************************************)

\* GitHubGetCreateRelease was called and returned or crashed
GetCreateCalled == relPc \in { "done", "panic" } /\ relAnswers # NoAnswers

\* the lookup of the tag found nothing or failed
TagLookupFails == ~tagExists \/ relAnswers.getFailed

\* the repository held a release for the tag before the call
ReleaseExisted == releaseExists /\ relWrites = << >>

\* the release the claim describes for a tag without one
ClaimedRelease ==
  [TagName |-> releaseTag, Name |-> releaseTag, Body |-> bodyStr, Draft |-> FALSE,
   Prerelease |-> Count(releaseTag, "-") > 0]

\* the call returned an error and sent no request
ErrorAndNothingCreated == relPc = "done" /\ relOut /\ relWrites = << >>

\* the release the call would return in the other mode, on the same answers
OtherModeResult ==
  GitHubGetCreateRelease(releaseTag, bodyStr, ~dryRun, tagExists /\ ~relAnswers.getFailed,
                         relAnswers.lookup, relAnswers.createFailed)

\* both modes return a release, and it is the same one
SameReleaseInBothModes ==
  (relPc = "done" /\ ~relOut /\ OtherModeResult.err = "nil") => release = OtherModeResult.release

FFBranchV == BranchRefToVersion(latestBranch, PrefixBranch)

FFTagV == TagRefToVersion(latestTag)

\* a versioned branch was found
VersionedBranchFound == latestBranch # NilRef /\ ~FFBranchV.err

\* a tag with the MAJOR.MINOR of the latest branch was found
TagOfLatestBranch ==
  /\ latestTag # NilRef /\ ~FFTagV.err
  /\ FFTagV.major = FFBranchV.major /\ FFTagV.minor = FFBranchV.minor

\* the latest tag is MAJOR.MINOR.0 with a label from beta.0 up to rc.0
TagInsideWindow ==
  \E l \in DestLabels :
    /\ TrainInWindow(l)
    /\ latestTag.Ref = TagName(RefsTags, FFBranchV.major, FFBranchV.minor, 0, Label(l[1], l[2]))

\* process returned with an error of the type
FFFailedWith(type) == ffPc = "done" /\ ffOut.err = type

\* process has not compared the branches nor shown the prompt
BeforeCompare == cmpStatus = "none" /\ yes = "none"

\* C22: a merge request is sent only after a versioned branch was found, a
\* tag with its MAJOR.MINOR was found, the tag is inside the fast-forward
\* window, the comparison with master was not "identical" ("behind" is no
\* error) and Force is set or the prompt was answered yes; each failed check
\* ends the run with its error before the next check is made, sends no merge
\* request and returns a nil reference and a nil commit.
C22_MergeOnlyAfterChecks ==
  /\ merges # << >> =>
       /\ Len(merges) = 1
       /\ VersionedBranchFound /\ TagOfLatestBranch /\ TagInsideWindow
       /\ cmpStatus \in { "ahead", "behind", "diverged" }
       /\ force \/ yes = "yes"
  /\ FFFailedWith("releaseBranchError") => (latestBranch = NilRef /\ latestTag = NilRef /\ BeforeCompare)
  /\ (FFFailedWith("genericError") /\ latestBranch # NilRef /\ latestTag = NilRef) => BeforeCompare
  /\ FFFailedWith("fastForwardWindowError") =>
       (VersionedBranchFound /\ TagOfLatestBranch /\ ~TagInsideWindow /\ BeforeCompare)
  /\ FFFailedWith("identicalBranchesError") =>
       (TagInsideWindow /\ cmpStatus = "identical" /\ yes = "none")
  /\ cmpStatus = "behind" => (ffPc \in { "prompt", "write", "done" } /\ ~FFFailedWith("identicalBranchesError"))
  /\ (\/ FFFailedWith("releaseBranchError")
      \/ FFFailedWith("fastForwardWindowError")
      \/ FFFailedWith("identicalBranchesError")
      \/ FFFailedWith("genericError") /\ (latestTag = NilRef \/ cmpStatus = "error" \/ yes = "error"))
       => (merges = << >> /\ ffOut.branch = NilRef /\ ffOut.commit = NilCommit)

\* a run without Force that found master behind the branch, was confirmed
\* at the prompt and sent the merge request
C22_Witness ==
  /\ ffPc = "done" /\ merges # << >>
  /\ ~force /\ yes = "yes" /\ cmpStatus = "behind"

\* process reached the write label and returned
FFWriteReturned ==
  /\ ffPc = "done"
  /\ cmpStatus \in { "ahead", "behind", "diverged" }
  /\ force \/ yes = "yes"

\* Merge branch "master" into <the latest branch>
MergeMessage ==
  << "M", "e", "r", "g", "e", " ", "b", "r", "a", "n", "c", "h", " ", "\"" >> \o BranchMaster
    \o << "\"", " ", "i", "n", "t", "o", " " >> \o TrimPrefix(latestBranch.Ref, RefsHeads)

\* C23: after the merge request process returns the latest branch and the
\* merge commit exactly when the response status is 201; no response gives a
\* genericError, 204 a noContentError, any other status a genericError, each
\* with a nil branch and commit.  In DRY-RUN mode the write label always
\* returns the branch with a commit of SHA "dry-run-sha" whose message names
\* the merged branches.
C23_MergeOutcome ==
  FFWriteReturned =>
    IF dryRun
    THEN /\ merges = << >>
         /\ ffOut = [branch |-> latestBranch,
                     commit |-> [SHA |-> "dry-run-sha", Message |-> MergeMessage],
                     err |-> "nil"]
    ELSE /\ Len(merges) = 1
         /\ merges[1].StatusCode = 201 <=>
              (ffOut.err = "nil" /\ ffOut.branch = latestBranch /\ ffOut.branch # NilRef
                 /\ ffOut.commit # NilCommit /\ ffOut.commit.Message = MergeMessage)
         /\ merges[1].StatusCode = 0 => ffOut = FFError("genericError")
         /\ merges[1].StatusCode = 204 => ffOut = FFError("noContentError")
         /\ merges[1].StatusCode \notin { 0, 201, 204 } => ffOut = FFError("genericError")

\* a run in regular mode whose merge request was answered 204 No Content
C23_Witness ==
  /\ FFWriteReturned /\ ~dryRun
  /\ merges # << >> /\ merges[1].StatusCode = 204
  /\ ffOut.err = "noContentError"

(***************************************************************************)
(* Properties of the write label of k8s-repo-sync (checked under SpecSync).*)
(***************************************************************************)

IsTagCall(j) == HasPrefix(created[j].Ref, RefsTags)

\* the SHA of the destination's master branch
DestMasterSHA ==
  LET masters == { i \in 1..Len(branchesDest) : branchesDest[i].Ref = RefsHeads \o BranchMaster }
  IN IF masters = { } THEN -1 ELSE branchesDest[CHOOSE i \in masters : TRUE].SHA

\* the destination branches, those created in the run included, that carry
\* the branch prefix and the MAJOR.MINOR of the tag of call j
BranchesOfCreatedTag(j) ==
  { i \in 1..Len(branchesDest) :
      LET branchV == BranchRefToVersion(branchesDest[i], PrefixBranch)
          tagV == TagToVersion(created[j].Ref)
      IN ~branchV.err /\ branchV.major = tagV.major /\ branchV.minor = tagV.minor }

\* call j creates a reference that is not below -min-version
NotBelowMinVersion(j) ==
  LET v == IF IsTagCall(j) THEN TagToVersion(created[j].Ref)
           ELSE BranchRefToVersion(created[j], PrefixBranch)
  IN /\ ~v.err
     /\ \/ v.major > minVersion.major
        \/ v.major = minVersion.major /\ v.minor >= minVersion.minor

\* branches first, at master; then tags at their branch, else at master
CreatedInOrderAt(calls) ==
  /\ \A i, j \in calls : (i < j /\ IsTagCall(i)) => IsTagCall(j)
  /\ \A j \in calls :
       /\ NotBelowMinVersion(j)
       /\ ~IsTagCall(j) => created[j].SHA = DestMasterSHA
       /\ IsTagCall(j) =>
            IF BranchesOfCreatedTag(j) = { } THEN created[j].SHA = DestMasterSHA
            ELSE \E i \in BranchesOfCreatedTag(j) : created[j].SHA = branchesDest[i].SHA

\* C24: in a run of k8s-repo-sync that writes, the new branches are created
\* before the new tags and at the SHA of the destination's master; every new
\* tag is created at the SHA of the destination branch with its MAJOR.MINOR
\* (the branches created in the run count) and at the master SHA when there
\* is none; nothing below -min-version is created.
C24_BranchesThenTagsAtBranchHEAD == CreatedInOrderAt(1..Len(created))

\* the tag of call j has a PATCH and no destination branch is named by a bare
\* version
ReleaseStyleCall(j) ==
  /\ IsTagCall(j) => ~ParseSemantic(TrimPrefix(created[j].Ref, RefsTags)).err
  /\ \A i \in 1..Len(branchesDest) :
       HasPrefix(TrimPrefix(branchesDest[i].Ref, RefsHeads), PrefixBranch)
         \/ TrimPrefix(branchesDest[i].Ref, RefsHeads) = BranchMaster

\* on tags with a PATCH and destinations that hold only master and prefixed
\* branches the write label does what C24 says
SyncWriteOrderOnReleaseRefs ==
  CreatedInOrderAt({ j \in 1..Len(created) : ReleaseStyleCall(j) })

\* process found new references and the destination has no master branch
NewRefsWithoutMaster ==
  /\ syncPc = "done"
  /\ DestMasterSHA = -1
  /\ newTags # << >> \/ newBranches # << >>

\* process returned an error and no reference was created, not even in
\* DRY-RUN mode
SyncErrorBeforeAnyCreate == syncOut.err /\ created = << >>

\* process returned after finding nothing new
NothingNewReturned == syncPc = "done" /\ ~syncOut.err /\ newTags = << >> /\ newBranches = << >>

\* every reference of the source that passes the filter is in the destination
NothingNewInSource ==
  /\ \A i \in 1..Len(tagsSrc) :
       KeptTag(tagsSrc[i], minVersion) => \E j \in 1..Len(tagsDest) : tagsDest[j].Ref = tagsSrc[i].Ref
  /\ \A i \in 1..Len(branchesSrc) :
       KeptBranch(branchesSrc[i], minVersion, PrefixBranch)
         => \E j \in 1..Len(branchesDest) : branchesDest[j].Ref = branchesSrc[i].Ref

\* an empty list, no prompt and no write
EmptyListWithoutPrompt ==
  NothingNewReturned => (NothingNewInSource /\ syncOut.refs = << >> /\ yes = "none" /\ created = << >>)

\* C25 as stated: with at least one new tag or branch and no master branch
\* in the destination, process returns an error before any reference is
\* created, in DRY-RUN and regular mode alike; with nothing new it returns an
\* empty list without prompting and without writing, with or without master.
C25_NoMasterIsError ==
  /\ NewRefsWithoutMaster => SyncErrorBeforeAnyCreate
  /\ EmptyListWithoutPrompt

\* C25, amended: the error for the missing master comes at the write label,
\* so only when Force is set or the prompt was answered yes; a prompt that
\* fails is an error of its own, and a declined prompt returns without an
\* error and without writing.
C25_NoMasterIsErrorAtWrite ==
  /\ (NewRefsWithoutMaster /\ (force \/ yes \in { "yes", "error" })) => SyncErrorBeforeAnyCreate
  /\ (NewRefsWithoutMaster /\ ~force /\ yes = "no") => (~syncOut.err /\ created = << >>)
  /\ NewRefsWithoutMaster => (force \/ yes \in { "yes", "no", "error" })
  /\ EmptyListWithoutPrompt

\* a confirmed DRY-RUN run that found a new tag and no master
C25_Witness ==
  /\ NewRefsWithoutMaster /\ dryRun /\ ~force /\ yes = "yes"
  /\ newTags # << >> /\ branchesDest # << >>
  /\ syncOut.err

(***************************************************************************)
(* Relations between calls of FindReleaseNotesSinceRef (under SpecNotes).  *)
(***************************************************************************)

\* the tag list without the references that are not SemVer
SemVerRefs == SelectSeq(refs, LAMBDA r : ~TagToVersion(r.Ref).err)

\* C26: unparsable entries of the tag list never change the outcome of
\* FindReleaseNotesSinceRef: the result is the result for the list without
\* them, and a target the function parses never gets an error.
C26_UnparsableTagsSkipped ==
  notesPc = "done" =>
    /\ notes = FindReleaseNotesSinceRef(ref, SemVerRefs)
    /\ ~SinceRefVersion(ref).err => ~notes.err

\* a call that found the predecessor behind a reference that is not SemVer
C26_Witness ==
  /\ notesPc = "done"
  /\ Len(refs) = 2 /\ refs[1].Ref = NonSemVerName
  /\ ~notes.err /\ ~notes.panic /\ notes.ref = refs[2]

(***************************************************************************)
(* getReleaseNotesToolSHAs                                                 *)
(***************************************************************************)

ToolSHAsReturned == relPc = "done" /\ toolSHAs.err # "none"

\* the tag of the destination that carries the user's release tag
UserTagRef == FirstNamed(RefsTags \o releaseTag, tagsDest)

\* the final release one minor below the final release tag of the calls
PreviousMinorRef == FirstNamed(TagName(RefsTags, MaxMajor, MaxMinor - 1, 0, << >>), tagsDest)

ReleaseTagIsFinal == releaseTag = TagName(<< >>, MaxMajor, MaxMinor, 0, << >>)

ReleaseTagIsAlphaZero == releaseTag = TagName(<< >>, MaxMajor, MaxMinor, 0, Label(Alpha, 0))

\* what the claim says of a returned value got
ToolSHAsAsClaimed(got) ==
  IF UserTagRef = NilRef \/ ParseSemantic(releaseTag).err THEN got.err = "error"
  ELSE /\ ReleaseTagIsFinal /\ PreviousMinorRef # NilRef
          => got.err = "nil" /\ got.start = UserTagRef.SHA /\ got.end = PreviousMinorRef.SHA
       /\ ReleaseTagIsAlphaZero
          => got.err = "nil" /\ got.start = UserTagRef.SHA /\ got.end = got.start

\* C27: getReleaseNotesToolSHAs returns the SHA of the user's release tag as
\* start SHA and the SHA of the reference FindReleaseNotesSinceRef selects
\* as end SHA (the final release one minor below for a final release, the
\* tag itself for an alpha.0), and an error when the release tag does not
\* exist in the destination or is not SemVer.
C27_ToolSHAs ==
  ToolSHAsReturned /\ ~toolSHAs.failed => ToolSHAsAsClaimed(toolSHAs)

\* the error half of C27 holds: a missing or non-SemVer release tag is an error
ToolSHAsErrorCases ==
  ToolSHAsReturned /\ (UserTagRef = NilRef \/ ParseSemantic(releaseTag).err)
    => toolSHAs.err = "error"

\* with the bare tag name as the target of FindReleaseNotesSinceRef the
\* returned SHAs are the ones of C27
ToolSHAsWithBareTarget ==
  ToolSHAsReturned
    => ToolSHAsAsClaimed(getReleaseNotesToolSHAsBareTag(releaseTag, tagsDest, FALSE, FALSE))

\* an existing SemVer release tag makes getReleaseNotesToolSHAs fail
ToolSHAsFailOnExistingTag ==
  ToolSHAsReturned /\ UserTagRef # NilRef /\ ~ParseSemantic(releaseTag).err
    => toolSHAs.err = "error"

(***************************************************************************)
(* FindReleaseNotesSinceRef and the order of the tag list                  *)
(***************************************************************************)

\* the lists that hold the references of refs in another order
PermutationsOfRefs ==
  { [ i \in 1..Len(refs) |-> refs[p[i]] ] : p \in Permutations(1..Len(refs)) }

\* the references of refs that parse carry pairwise distinct versions
DistinctVersions ==
  \A i, j \in 1..Len(refs) :
    i # j /\ ~TagToVersion(refs[i].Ref).err /\ ~TagToVersion(refs[j].Ref).err
      => VersionString(TagToVersion(refs[i].Ref)) # VersionString(TagToVersion(refs[j].Ref))

\* C28: the result of FindReleaseNotesSinceRef does not depend on the order
\* of the tag list: for a parseable target and a list whose parseable
\* references have pairwise distinct versions, every permutation of the list
\* gives the reference the call returned.
C28_OrderIndependent ==
  notesPc = "done" /\ ~SinceRefVersion(ref).err /\ DistinctVersions
    => \A list \in PermutationsOfRefs : FindReleaseNotesSinceRef(ref, list) = notes

\* a release candidate with two earlier pre-releases listed newest first:
\* the newest one is returned
C28_Witness ==
  /\ notesPc = "done"
  /\ ref.Ref = TagName(<< >>, MaxMajor, MaxMinor, 0, Label(Rc, 1))
  /\ Len(refs) >= 2
  /\ refs[1].Ref = TagName(RefsTags, MaxMajor, MaxMinor, 0, Label(Beta, 0))
  /\ refs[2].Ref = TagName(RefsTags, MaxMajor, MaxMinor, 0, Label(Alpha, 0))
  /\ DistinctVersions
  /\ notes = Returned(refs[1])

(***************************************************************************)
(* FindBranchHEADForTag and the branch prefix                              *)
(***************************************************************************)

\* the positions of the branches whose name starts with the branch prefix
PrefixedBranches ==
  { i \in 1..Len(uRefs2) : HasPrefix(TrimPrefix(uRefs2[i].Ref, RefsHeads), uPrefix) }

\* the tag handed to FindBranchHEADForTag is not a semantic version
HEADTagNotSemVer == ParseSemantic(TrimPrefix(uRef.Ref, RefsTags)).err

\* C29: FindBranchHEADForTag never takes the SHA of a branch whose name does
\* not start with the branch prefix: the returned SHA is the master SHA or
\* the SHA of a branch that carries the prefix, and for a tag that is not a
\* semantic version it is the master SHA.
C29_OnlyPrefixedBranches ==
  Called("FindBranchHEADForTag")
    => /\ uOut.sha = MasterSHA \/ \E i \in PrefixedBranches : uOut.sha = uRefs2[i].SHA
       /\ HEADTagNotSemVer => uOut.sha = MasterSHA

\* the second half of C29 holds: a tag that is not a semantic version gets
\* the master SHA
HEADOfNonSemVerTagIsMaster ==
  Called("FindBranchHEADForTag") /\ HEADTagNotSemVer => uOut.sha = MasterSHA

\* with branches that all carry the prefix or are master the first half of
\* C29 holds as well
HEADAmongPrefixedBranches ==
  (/\ Called("FindBranchHEADForTag")
   /\ \A i \in 1..Len(uRefs2) :
        i \in PrefixedBranches \/ TrimPrefix(uRefs2[i].Ref, RefsHeads) = BranchMaster)
    => C29_OnlyPrefixedBranches

(***************************************************************************)
(* k8s-repo-sync run a second time                                         *)
(***************************************************************************)

\* a run in regular mode, not declined at the prompt, returned without error
SyncRegularRunSucceeded ==
  syncPc = "done" /\ ~syncOut.err /\ ~dryRun /\ yes # "no"

\* the references of list exist by name in dest
AllNamedIn(list, dest) ==
  \A i \in 1..Len(list) : \E j \in 1..Len(dest) : list[i].Ref = dest[j].Ref

\* the new tags and branches that process finds against the destination as
\* the run left it
SecondRunNewTags == FindNewRefs(TrimTags(tagsSrc, minVersion), TrimTags(tagsDest, minVersion))

SecondRunNewBranches ==
  FindNewRefs(TrimBranches(branchesSrc, minVersion, PrefixBranch),
              TrimBranches(branchesDest, minVersion, PrefixBranch))

\* C30: k8s-repo-sync is idempotent: after a run in regular mode that was
\* confirmed and returned without error, every tag and branch of the source
\* that passes the -min-version filter exists by name in the destination,
\* so a second run finds no new tags and no new branches and returns at
\* once with an empty list.
C30_SyncIdempotent ==
  SyncRegularRunSucceeded
    => /\ AllNamedIn(TrimTags(tagsSrc, minVersion), tagsDest)
       /\ AllNamedIn(TrimBranches(branchesSrc, minVersion, PrefixBranch), branchesDest)
       /\ Len(SecondRunNewTags) = 0 /\ Len(SecondRunNewBranches) = 0

\* a run that created a branch and then a tag
C30_Witness ==
  /\ SyncRegularRunSucceeded
  /\ Len(created) >= 2
  /\ \E i, j \in 1..Len(created) :
       /\ i < j
       /\ HasPrefix(created[i].Ref, RefsHeads)
       /\ HasPrefix(created[j].Ref, RefsTags)
  /\ Len(tagsDest) > 0 /\ tagsDest[Len(tagsDest)].Ref = created[Len(created)].Ref

====
